---- MODULE Spec2Model ----
(***************************************************************************)
(* A model of confique's layered configuration engine: the code that the   *)
(* derive macro generates for every configuration type (the Layer          *)
(* operations and Config::from_layer), the environment binder of           *)
(* confique::internal, and Builder::load.                                  *)
(***************************************************************************)
EXTENDS Integers, Sequences, FiniteSets, TLC

VARIABLES
    lty,      \* the configuration type whose layers la, lb, lc are
    la,       \* a layer of type lty (highest priority)
    lb,       \* a layer of type lty
    lc,       \* a layer of type lty (lowest priority)
    cur,      \* the layer built so far by with_fallback
    lpc,      \* how many layers cur holds: "a", "ab", "abc"
    res,      \* the result of Config::from_layer(cur), or NoRes
    env,      \* the process environment: key -> what std::env::var returns
    ety,      \* the type whose Layer::from_env() ran, or "none"
    eres,     \* the result of Layer::from_env(), or NoRes
    files,    \* the file system: path -> what is found there
    pre,      \* a layer the caller holds, to hand to Builder::preloaded
    sources,  \* Builder::sources
    bres,     \* the result of Builder::load, or NoRes
    vlog,     \* the calls of struct-level validators made so far, in order
    trace,    \* the steps of Builder::load and the I/O done so far, in order
    file,     \* the File the caller holds: None or Some(File)
    fpc,      \* how the File was asked for: "none", "new", "with_format"
    fres,     \* the error of File::new or the result of File::load, or NoRes
    dty,      \* the struct whose Layer::default_values() ran, or "none"
    dres,     \* how that call ended: it returned a layer or it panicked
    pin,      \* the value handed to env::Deserializer::new
    pty,      \* the type deserialized from it, or "none"
    pout,     \* the result of <pty as Deserialize>::deserialize, or NoRes
    fmt,      \* the Json5Formatter being written to
    fprev,    \* the formatter before the last call of one of its methods
    fop,      \* that last call: None or Some([op, size])
    tcfg,     \* the call json5::template::<ty>(options): None or Some([ty, options])
    mexpr,    \* a default attribute and the meta::Expr generated for it, or None
    th,       \* the threads running Builder::load: thread -> its local state
    ffres     \* the call Config::from_file(path) and its result, or None

lvars == <<lty, la, lb, lc, cur, lpc, res>>
evars == <<env, ety, eres>>
bvars == <<files, pre, sources, bres>>
tvars == <<vlog, trace>>
fvars == <<file, fpc, fres>>
dvars == <<dty, dres>>
pvars == <<pin, pty, pout>>
jvars == <<fmt, fprev, fop, tcfg>>
xvars == <<jvars, mexpr, th, ffres>>
vars == <<lvars, evars, bvars, tvars, fvars, dvars, pvars, xvars>>

-----------------------------------------------------------------------------
(* Bounds *)

\* u32 leaves of enumerated layers hold 1..MaxVal
MaxVal == 2

\* at most MaxEnvSet environment variables are set at a time
MaxEnvSet == 2

\* a Builder is given at most MaxSources sources
MaxSources == 2

-----------------------------------------------------------------------------
(* Option<T> and Result<T, Error> *)

None == <<>>
Some(v) == <<v>>

NoErr == [kind |-> "none", path |-> "", field |-> "", key |-> ""]
Ok(v) == [ok |-> TRUE, val |-> <<v>>, err |-> NoErr]
Err(e) == [ok |-> FALSE, val |-> <<>>, err |-> e]
NoRes == [ok |-> FALSE, val |-> <<>>, err |-> [kind |-> "notrun", path |-> "", field |-> "", key |-> ""]]

\* ErrorInner::MissingValue(path), ErrorInner::Validation { msg }
MissingValue(path) == [kind |-> "MissingValue", path |-> path, field |-> "", key |-> ""]
Validation(name) == [kind |-> "Validation", path |-> "", field |-> name, key |-> ""]
\* ErrorInner::EnvNotUnicode / EnvDeserialization / EnvParseError { field, key, .. }
EnvNotUnicode(field, key) == [kind |-> "EnvNotUnicode", path |-> "", field |-> field, key |-> key]
EnvDeserialization(field, key) == [kind |-> "EnvDeserialization", path |-> "", field |-> field, key |-> key]
EnvParseError(field, key) == [kind |-> "EnvParseError", path |-> "", field |-> field, key |-> key]
\* ErrorInner::MissingFileExtension / UnsupportedFileFormat / MissingRequiredFile { path }
MissingFileExtension(path) == [kind |-> "MissingFileExtension", path |-> path, field |-> "", key |-> ""]
UnsupportedFileFormat(path) == [kind |-> "UnsupportedFileFormat", path |-> path, field |-> "", key |-> ""]
MissingRequiredFile(path) == [kind |-> "MissingRequiredFile", path |-> path, field |-> "", key |-> ""]
\* ErrorInner::Io { path, err }, ErrorInner::Deserialization { err, source }
Io(path) == [kind |-> "Io", path |-> path, field |-> "", key |-> ""]
Deserialization(source) == [kind |-> "Deserialization", path |-> source, field |-> "", key |-> ""]

-----------------------------------------------------------------------------
(* The schema: what the derive macro reads off the struct definitions.     *)
(* ir::Field with FieldKind::Nested or FieldKind::Leaf.                    *)

\* ir::Expr: the literal of #[config(default = ...)]
ExprInt(n) == [lit |-> "Int", int |-> n, str |-> <<>>, bool |-> FALSE]
ExprStr(s) == [lit |-> "Str", int |-> 0, str |-> s, bool |-> FALSE]
ExprBool(b) == [lit |-> "Bool", int |-> 0, str |-> <<>>, bool |-> b]

Nested(name, ty) ==
    [name |-> name, nested |-> TRUE, ty |-> ty, optional |-> FALSE,
     default |-> None, env |-> None, parse_env |-> None, validate |-> None]

Leaf(name, ty, optional, default, env_key, parse_env, validate) ==
    [name |-> name, nested |-> FALSE, ty |-> ty, optional |-> optional,
     default |-> default, env |-> env_key, parse_env |-> parse_env,
     validate |-> validate]

\* struct Conf { debug: Option<bool>, #[config(nested)] http: Http }
\* struct Http { #[config(env = "PORT", default = 1)] port: u32,
\*               #[config(nested)] tls: Tls }
\* struct Tls  { cert: String }
Fields(ty) ==
    CASE ty = "Conf" -> <<
            Leaf("debug", "bool", TRUE, None, None, None, None),
            Nested("http", "Http") >>
      [] ty = "Http" -> <<
            Leaf("port", "u32", FALSE, Some(ExprInt(1)), Some("PORT"), None,
                 Some("not_zero")),
            Nested("tls", "Tls") >>
      [] ty = "Tls" -> <<
            Leaf("cert", "String", FALSE, None, None, None,
                 Some("not_empty")) >>
      \* the struct of the test empty_error_is_unset
      [] ty = "EnvConf" -> <<
            Leaf("foo", "u32", FALSE, None, Some("FOO"), None, None),
            Leaf("bar", "u32", FALSE, None, Some("BAR"), Some("my_parser"), None),
            Leaf("baz", "String", FALSE, None, Some("BAZ"), None, None),
            Leaf("validate", "String", FALSE, None, Some("VALIDATE"), None,
                 Some("not_empty")),
            Leaf("validate_parse", "u32", FALSE, None, Some("VALIDATE_PARSE"),
                 Some("my_parser2"), Some("not_zero")) >>

      \* struct Defaults { required: u32,
      \*     #[config(default = 2, validate = not_zero)] with_default: u32,
      \*     optional: Option<u32>,
      \*     #[config(default = "a", validate = not_empty)] name: String,
      \*     #[config(default = true)] flag: bool,
      \*     #[config(nested)] http: Http }
      [] ty = "Defaults" -> <<
            Leaf("required", "u32", FALSE, None, None, None, None),
            Leaf("with_default", "u32", FALSE, Some(ExprInt(2)), None, None,
                 Some("not_zero")),
            Leaf("optional", "u32", TRUE, None, None, None, None),
            Leaf("name", "String", FALSE, Some(ExprStr(<<"a">>)), None, None,
                 Some("not_empty")),
            Leaf("flag", "bool", FALSE, Some(ExprBool(TRUE)), None, None, None),
            Nested("http", "Http") >>
      \* the structs of invalid_default_panics_*: a default its validator rejects
      [] ty = "BadValidated" -> <<
            Leaf("foo", "u32", FALSE, Some(ExprInt(0)), None, None, Some("not_zero")) >>
      [] ty = "BadValidatedStr" -> <<
            Leaf("foo", "String", FALSE, Some(ExprStr(<<>>)), None, None,
                 Some("not_empty")) >>
      \* a default literal of another kind than the field's type
      [] ty = "BadLiteral" -> <<
            Leaf("foo", "u32", FALSE, Some(ExprStr(<<"a">>)), None, None, None) >>
      [] ty = "BadLiteralInt" -> <<
            Leaf("foo", "String", FALSE, Some(ExprInt(1)), None, None, None) >>
      \* a struct that nests one with a bad default
      [] ty = "BadNested" -> <<
            Leaf("ok", "u32", FALSE, Some(ExprInt(1)), None, None, None),
            Nested("inner", "BadValidated") >>

      \* #[config(validate = Outer::validate)]
      \* struct Outer { first: u32, #[config(nested)] inner: Inner, last: u32 }
      \* #[config(validate = Inner::validate)]
      \* struct Inner { a: u32 }
      [] ty = "Outer" -> <<
            Leaf("first", "u32", FALSE, None, None, None, None),
            Nested("inner", "Inner"),
            Leaf("last", "u32", FALSE, None, None, None, None) >>
      [] ty = "Inner" -> <<
            Leaf("a", "u32", FALSE, None, None, None, None) >>
      \* struct Nests { #[config(nested)] tls: Tls, #[config(nested)] inner: Inner }
      [] ty = "Nests" -> << Nested("tls", "Tls"), Nested("inner", "Inner") >>
      \* struct Listen { #[config(default = 2)] port: u32, name: Option<String> }
      [] ty = "Listen" -> <<
            Leaf("port", "u32", FALSE, Some(ExprInt(2)), None, None, None),
            Leaf("name", "String", TRUE, None, None, None, None) >>
      \* struct Unit {}
      [] ty = "Unit" -> << >>

\* #[config(validate = ...)] on the struct: Conf, Outer and Inner declare one
StructValidator(ty) ==
    IF ty \in {"Conf", "Outer", "Inner"} THEN Some(ty \o "::validate") ELSE None

Types == {"Conf", "Http", "Tls"}

\* the doc comments of the struct ty (n = "") and of its field n: one string
\* per line, as meta::Meta::doc and meta::Field::doc hold them
Doc(ty, n) ==
    CASE ty = "Conf" /\ n = "" -> <<" App configuration.">>
      [] ty = "Conf" /\ n = "debug" -> <<" Debug mode.">>
      [] ty = "Conf" /\ n = "http" -> <<" HTTP settings.">>
      [] ty = "Http" /\ n = "port" -> <<" The port.", " Above 0.">>
      [] ty = "Defaults" /\ n = "name" -> <<" The name.">>
      [] ty = "Outer" /\ n = "last" -> <<" The last.">>
      [] ty = "Nests" /\ n = "inner" -> <<" The inner.">>
      [] OTHER -> <<>>

FieldNames(ty) == {Fields(ty)[i].name : i \in 1..Len(Fields(ty))}
Field(ty, n) == CHOOSE f \in {Fields(ty)[i] : i \in 1..Len(Fields(ty))} : f.name = n

\* variant: only the required leaves without default count
is_required_no_default(f) == ~f.optional /\ f.default = None

\* LeafKind::is_required: matches!(self, Self::Required { .. })
is_required(f) == ~f.optional

-----------------------------------------------------------------------------
(* The generated Layer impl (gen_partial_mod / gen_parts_for_field) *)

RECURSIVE empty(_)
empty(ty) ==
    [n \in FieldNames(ty) |->
        IF Field(ty, n).nested THEN empty(Field(ty, n).ty) ELSE None]

\* Option::or
or(a, b) == IF a # None THEN a ELSE b

\* variant: the fallback is dropped
with_fallback_self_only(ty, self, fallback) == self

\* variant: the fallback wins over self in leaves
RECURSIVE with_fallback_rev(_, _, _)
with_fallback_rev(ty, self, fallback) ==
    [n \in FieldNames(ty) |->
        IF Field(ty, n).nested
        THEN with_fallback_rev(Field(ty, n).ty, self[n], fallback[n])
        ELSE or(fallback[n], self[n])]

\* variant: nested fields are taken from self and not merged
with_fallback_shallow(ty, self, fallback) ==
    [n \in FieldNames(ty) |->
        IF Field(ty, n).nested THEN self[n] ELSE or(self[n], fallback[n])]

\* variant: Option::xor in place of Option::or
RECURSIVE with_fallback_xor(_, _, _)
with_fallback_xor(ty, self, fallback) ==
    [n \in FieldNames(ty) |->
        IF Field(ty, n).nested
        THEN with_fallback_xor(Field(ty, n).ty, self[n], fallback[n])
        ELSE IF self[n] # None /\ fallback[n] # None THEN None
             ELSE or(self[n], fallback[n])]

RECURSIVE with_fallback(_, _, _)
with_fallback(ty, self, fallback) ==
    [n \in FieldNames(ty) |->
        IF Field(ty, n).nested
        THEN with_fallback(Field(ty, n).ty, self[n], fallback[n])
        ELSE or(self[n], fallback[n])]

RECURSIVE is_empty(_, _)
is_empty(ty, self) ==
    \A n \in FieldNames(ty) :
        IF Field(ty, n).nested
        THEN is_empty(Field(ty, n).ty, self[n])
        ELSE self[n] = None

\* variant: the nested fields are not asked
is_complete_shallow(ty, self) ==
    \A n \in FieldNames(ty) :
        Field(ty, n).nested \/ (is_required(Field(ty, n)) => self[n] # None)

RECURSIVE is_complete(_, _)
is_complete(ty, self) ==
    \A n \in FieldNames(ty) :
        IF Field(ty, n).nested
        THEN is_complete(Field(ty, n).ty, self[n])
        ELSE is_required(Field(ty, n)) => self[n] # None

-----------------------------------------------------------------------------
(* The layers of a type, as a file, a preloaded layer or manual            *)
(* construction can produce them.                                          *)

LeafValues(lt) ==
    CASE lt = "bool" -> BOOLEAN
      [] lt = "u32" -> 1..MaxVal
      [] lt = "String" -> {<<>>, <<"a">>}

RECURSIVE LayersFrom(_, _)
RECURSIVE Layers(_)
\* the layers restricted to the first k fields
LayersFrom(ty, k) ==
    IF k = 0 THEN {[n \in {} |-> None]}
    ELSE LET f == Fields(ty)[k]
             vs == IF f.nested THEN Layers(f.ty)
                   ELSE {None} \cup {Some(v) : v \in LeafValues(f.ty)}
         IN {l @@ (f.name :> v) : l \in LayersFrom(ty, k - 1), v \in vs}
Layers(ty) == LayersFrom(ty, Len(Fields(ty)))

-----------------------------------------------------------------------------
(* The generated Config impl (gen_config_impl) and its helpers *)

unwrap_or_missing_value_err(value, path) ==
    IF value # None THEN Ok(value[1]) ELSE Err(MissingValue(path))

\* variant: the path is appended in place of prepended
map_err_prefix_path_swapped(r, prefix) ==
    IF ~r.ok /\ r.err.kind = "MissingValue"
    THEN Err(MissingValue(r.err.path \o "." \o prefix))
    ELSE r

map_err_prefix_path(r, prefix) ==
    IF ~r.ok /\ r.err.kind = "MissingValue"
    THEN Err(MissingValue(prefix \o "." \o r.err.path))
    ELSE r

\* variant: an optional leaf is unwrapped like a required one
leaf_from_expr_unwrap(f, value) == unwrap_or_missing_value_err(value, f.name)

\* from_exprs of a leaf: LeafKind::Optional passes through, LeafKind::Required
\* is unwrapped
leaf_from_expr(f, value) ==
    IF f.optional THEN Ok(value) ELSE unwrap_or_missing_value_err(value, f.name)

\* fn validate(&self) of Conf: debug may only be enabled off port 1
ConfValidate(out) == ~(out.debug = Some(TRUE) /\ out.http.port = 1)

RunStructValidator(v, out) ==
    CASE v = "Conf::validate" -> ConfValidate(out)
      [] v = "Outer::validate" -> out.first # out.last
      [] v = "Inner::validate" -> out.a # 2

\* confique::internal::validate_struct(&out, &validator, struct_name)
validate_struct(out, v, struct_name) ==
    IF RunStructValidator(v, out) THEN Ok("unit") ELSE Err(Validation(struct_name))

RECURSIVE from_partial(_, _)
from_partial(ty, partial) ==
    LET fs == Fields(ty)
        \* the result of the i-th field's expression
        r == [i \in 1..Len(fs) |->
                IF fs[i].nested
                THEN map_err_prefix_path(
                        from_partial(fs[i].ty, partial[fs[i].name]), fs[i].name)
                ELSE leaf_from_expr(fs[i], partial[fs[i].name])]
        validated(out, v) ==
            IF v # None /\ ~validate_struct(out, v[1], ty).ok
            THEN Err(validate_struct(out, v[1], ty).err)
            ELSE Ok(out)
        \* `?` returns at the first field that fails
        struct(rs) ==
            LET failed == {i \in 1..Len(fs) : ~rs[i].ok}
            IN  IF failed # {}
                THEN Err(rs[CHOOSE i \in failed : \A j \in failed : i <= j].err)
                ELSE validated([n \in FieldNames(ty) |->
                                   rs[CHOOSE i \in 1..Len(fs) : fs[i].name = n].val[1]],
                               StructValidator(ty))
    IN  struct(r)

\* a call validate_struct(&out, &validator, struct_name)
ValidatorCall(ty, v, out) == [ty |-> ty, validator |-> v, value |-> out]

\* variant: a field that fails does not stop the nested fields after it from
\* being resolved and validated
RECURSIVE struct_validator_calls_all(_, _)
struct_validator_calls_all(ty, partial) ==
    LET fs == Fields(ty)
        r == [i \in 1..Len(fs) |->
                IF fs[i].nested
                THEN map_err_prefix_path(
                        from_partial(fs[i].ty, partial[fs[i].name]), fs[i].name)
                ELSE leaf_from_expr(fs[i], partial[fs[i].name])]
        calls[i \in 0..Len(fs)] ==
            IF i = 0 THEN <<>>
            ELSE calls[i - 1] \o
                   (IF fs[i].nested
                    THEN struct_validator_calls_all(fs[i].ty, partial[fs[i].name])
                    ELSE <<>>)
        own(out, v) == IF v # None THEN <<ValidatorCall(ty, v[1], out)>> ELSE <<>>
        struct(rs) ==
            IF \E i \in 1..Len(fs) : ~rs[i].ok
            THEN calls[Len(fs)]
            ELSE calls[Len(fs)] \o
                    own([n \in FieldNames(ty) |->
                            rs[CHOOSE i \in 1..Len(fs) : fs[i].name = n].val[1]],
                        StructValidator(ty))
    IN  struct(r)

\* the calls of validate_struct that from_partial(ty, partial) makes, in
\* order: those of the nested fields up to the first field that fails, then
\* the type's own once every field is resolved
RECURSIVE struct_validator_calls(_, _)
struct_validator_calls(ty, partial) ==
    LET fs == Fields(ty)
        r == [i \in 1..Len(fs) |->
                IF fs[i].nested
                THEN map_err_prefix_path(
                        from_partial(fs[i].ty, partial[fs[i].name]), fs[i].name)
                ELSE leaf_from_expr(fs[i], partial[fs[i].name])]
        calls[i \in 0..Len(fs)] ==
            IF i = 0 THEN <<>>
            ELSE calls[i - 1] \o
                   (IF fs[i].nested
                    THEN struct_validator_calls(fs[i].ty, partial[fs[i].name])
                    ELSE <<>>)
        own(out, v) == IF v # None THEN <<ValidatorCall(ty, v[1], out)>> ELSE <<>>
        struct(rs) ==
            LET failed == {i \in 1..Len(fs) : ~rs[i].ok}
            IN  IF failed # {}
                THEN calls[CHOOSE i \in failed : \A j \in failed : i <= j]
                ELSE calls[Len(fs)] \o
                        own([n \in FieldNames(ty) |->
                                rs[CHOOSE i \in 1..Len(fs) : fs[i].name = n].val[1]],
                            StructValidator(ty))
    IN  struct(r)

-----------------------------------------------------------------------------
(* Strings of environment variables: sequences of characters *)

Digits == {"0", "1", "2", "3", "4", "5", "6", "7", "8", "9"}
DigitVal(c) ==
    CASE c = "0" -> 0 [] c = "1" -> 1 [] c = "2" -> 2 [] c = "3" -> 3
      [] c = "4" -> 4 [] c = "5" -> 5 [] c = "6" -> 6 [] c = "7" -> 7
      [] c = "8" -> 8 [] c = "9" -> 9

\* char::is_whitespace, for the characters drawn
Whitespace == {" ", "\t"}

\* str::trim
RECURSIVE trim_start(_)
trim_start(s) ==
    IF s # <<>> /\ Head(s) \in Whitespace THEN trim_start(Tail(s)) ELSE s
RECURSIVE trim_end(_)
trim_end(s) ==
    IF s # <<>> /\ s[Len(s)] \in Whitespace
    THEN trim_end(SubSeq(s, 1, Len(s) - 1)) ELSE s
trim(s) == trim_end(trim_start(s))

\* u8::to_ascii_lowercase, for the letters drawn
to_ascii_lowercase(c) ==
    CASE c = "A" -> "a" [] c = "E" -> "e" [] c = "F" -> "f" [] c = "L" -> "l"
      [] c = "N" -> "n" [] c = "O" -> "o" [] c = "R" -> "r" [] c = "S" -> "s"
      [] c = "T" -> "t" [] c = "U" -> "u" [] c = "Y" -> "y"
      [] OTHER -> c

\* str::eq_ignore_ascii_case
eq_ignore_ascii_case(a, b) ==
    /\ Len(a) = Len(b)
    /\ \A i \in 1..Len(a) : to_ascii_lowercase(a[i]) = to_ascii_lowercase(b[i])

\* the words that deserialize_bool knows
true == <<"t", "r", "u", "e">>
yes == <<"y", "e", "s">>
false == <<"f", "a", "l", "s", "e">>
no == <<"n", "o">>

RECURSIVE DecimalValue(_)
DecimalValue(s) ==
    IF s = <<>> THEN 0
    ELSE 10 * DecimalValue(SubSeq(s, 1, Len(s) - 1)) + DigitVal(s[Len(s)])

\* <u32 as FromStr>::from_str: an optional "+", then digits. Up to nine
\* digits never overflow a u32; longer strings are beyond the strings drawn
\* here and are refused.
parse_u32(s) ==
    LET d == IF s # <<>> /\ Head(s) = "+" THEN Tail(s) ELSE s
    IN  IF d # <<>> /\ (\A i \in 1..Len(d) : d[i] \in Digits) /\ Len(d) <= 9
        THEN Ok(DecimalValue(d))
        ELSE Err("ParseIntError")

-----------------------------------------------------------------------------
(* The environment binder: confique::env and confique::internal *)

\* variant: the bool method of the older env.rs, which knows 1, true, TRUE,
\* 0, false and FALSE only
deserialize_case_sensitive(ty, value) ==
    CASE ty = "u32" ->
            IF parse_u32(trim(value)).ok THEN parse_u32(trim(value)) ELSE Err("DeError")
      [] ty = "String" -> Ok(value)
      [] ty = "bool" ->
            LET s == trim(value)
                upper(w) == [i \in 1..Len(w) |->
                               CHOOSE c \in {"T", "R", "U", "E", "F", "A", "L", "S"} :
                                   to_ascii_lowercase(c) = w[i]]
            IN  IF s \in {<<"1">>, true, upper(true)} THEN Ok(TRUE)
                ELSE IF s \in {<<"0">>, false, upper(false)} THEN Ok(FALSE)
                ELSE Err("DeError")

\* <T as Deserialize>::deserialize(env::Deserializer::new(value)):
\* deserialize_via_parse! for the numbers, deserialize_any for a String,
\* deserialize_bool for a bool
deserialize(ty, value) ==
    LET \* map_err(|e| DeError(...))
        parsed(r) == IF r.ok THEN r ELSE Err("DeError")
        to_bool(s) ==
            IF \/ s = <<"1">>
               \/ eq_ignore_ascii_case(s, true)
               \/ eq_ignore_ascii_case(s, yes)
            THEN Ok(TRUE)
            ELSE IF \/ s = <<"0">>
                    \/ eq_ignore_ascii_case(s, false)
                    \/ eq_ignore_ascii_case(s, no)
            THEN Ok(FALSE)
            ELSE Err("DeError")
    IN  CASE ty = "u32" -> parsed(parse_u32(trim(value)))
          [] ty = "String" -> Ok(value)
          [] ty = "bool" -> to_bool(trim(value))

\* the functions named by validate = ... / validate(<expr>, "msg") of a leaf
RunFieldValidator(v, value) ==
    CASE v = "not_empty" -> value # <<>>
      [] v = "not_zero" -> value # 0

\* __confique_validate_<field>, by way of internal::validate_field
validate_fn(f, value) ==
    IF f.validate = None \/ RunFieldValidator(f.validate[1], value)
    THEN Ok("unit") ELSE Err("validation error")

\* __confique_deserialize_direct_<field>: deserialize, then validate; without
\* a validator the plain deserialize function
deserialize_fn(f, value) ==
    LET validated(out) ==
            IF ~out.ok THEN out
            ELSE IF ~validate_fn(f, out.val[1]).ok THEN Err("DeError")
            ELSE out
    IN  validated(deserialize(f.ty, value))

\* the functions named by parse_env = ...
RunParseEnv(fn, s) ==
    CASE fn = "my_parser" -> parse_u32(trim(s))
      [] fn = "my_parser2" -> IF s = <<>> THEN Ok(0) ELSE parse_u32(trim(s))

NotPresent == [kind |-> "NotPresent", s |-> <<>>]
NotUnicode == [kind |-> "NotUnicode", s |-> <<>>]
Present(s) == [kind |-> "Ok", s |-> s]

\* variant: an empty value is unset, whether it can be deserialized or not
from_env_with_deserializer_empty_unset(var, key, f, field) ==
    IF var.kind = "NotPresent" THEN Ok(None)
    ELSE IF var.kind = "NotUnicode" THEN Err(EnvNotUnicode(field, key))
    ELSE IF var.s = <<>> THEN Ok(None)
    ELSE IF deserialize_fn(f, var.s).ok THEN Ok(Some(deserialize_fn(f, var.s).val[1]))
    ELSE Err(EnvDeserialization(field, key))

\* variant: an empty value that fails is an error like any other
from_env_with_deserializer_strict(var, key, f, field) ==
    IF var.kind = "NotPresent" THEN Ok(None)
    ELSE IF var.kind = "NotUnicode" THEN Err(EnvNotUnicode(field, key))
    ELSE IF deserialize_fn(f, var.s).ok THEN Ok(Some(deserialize_fn(f, var.s).val[1]))
    ELSE Err(EnvDeserialization(field, key))

\* variant: a value that fails is taken as unset, empty or not
from_env_with_deserializer_lenient(var, key, f, field) ==
    IF var.kind = "NotPresent" THEN Ok(None)
    ELSE IF var.kind = "NotUnicode" THEN Err(EnvNotUnicode(field, key))
    ELSE IF deserialize_fn(f, var.s).ok THEN Ok(Some(deserialize_fn(f, var.s).val[1]))
    ELSE Ok(None)

\* internal::from_env_with_deserializer(key, field, deserialize), var being
\* what std::env::var(key) returns and deserialize the field's deserialize_fn
from_env_with_deserializer(var, key, f, field) ==
    \* get_env_var!
    IF var.kind = "NotPresent" THEN Ok(None)
    ELSE IF var.kind = "NotUnicode" THEN Err(EnvNotUnicode(field, key))
    ELSE LET s_is_empty == var.s = <<>>
             match(r) ==
                 IF r.ok THEN Ok(Some(r.val[1]))
                 ELSE IF s_is_empty THEN Ok(None)
                 ELSE Err(EnvDeserialization(field, key))
         IN  match(deserialize_fn(f, var.s))

\* what from_env_with_parser does with the validator it is handed: it runs
\* after a successful parse; a failure counts like a parse failure
validate_parsed(f, value, s_is_empty, key, field) ==
    IF validate_fn(f, value).ok THEN Ok(Some(value))
    ELSE IF s_is_empty THEN Ok(None)
    ELSE Err(EnvParseError(field, key))

\* variant: the parsed value is bound without asking the validator
from_env_with_parser_unvalidated(var, key, f, field) ==
    IF var.kind = "NotPresent" THEN Ok(None)
    ELSE IF var.kind = "NotUnicode" THEN Err(EnvNotUnicode(field, key))
    ELSE IF RunParseEnv(f.parse_env[1], var.s).ok
    THEN Ok(Some(RunParseEnv(f.parse_env[1], var.s).val[1]))
    ELSE IF var.s = <<>> THEN Ok(None)
    ELSE Err(EnvParseError(field, key))

\* internal::from_env_with_parser(key, field, parse, validate)
from_env_with_parser(var, key, f, field) ==
    \* get_env_var!
    IF var.kind = "NotPresent" THEN Ok(None)
    ELSE IF var.kind = "NotUnicode" THEN Err(EnvNotUnicode(field, key))
    ELSE LET s_is_empty == var.s = <<>>
             match(r) ==
                 IF r.ok THEN validate_parsed(f, r.val[1], s_is_empty, key, field)
                 ELSE IF s_is_empty THEN Ok(None)
                 ELSE Err(EnvParseError(field, key))
         IN  match(RunParseEnv(f.parse_env[1], var.s))

\* from_env_exprs of a leaf
leaf_from_env(ty, f, e) ==
    IF f.env = None THEN Ok(None)
    ELSE IF f.parse_env = None
    THEN from_env_with_deserializer(e[f.env[1]], f.env[1], f, ty \o "::" \o f.name)
    ELSE from_env_with_parser(e[f.env[1]], f.env[1], f, ty \o "::" \o f.name)

\* the generated Layer::from_env
RECURSIVE from_env(_, _)
from_env(ty, e) ==
    LET fs == Fields(ty)
        \* the result of the i-th field's expression
        r == [i \in 1..Len(fs) |->
                IF fs[i].nested THEN from_env(fs[i].ty, e)
                ELSE leaf_from_env(ty, fs[i], e)]
        \* `?` returns at the first field that fails
        struct(rs) ==
            LET failed == {i \in 1..Len(fs) : ~rs[i].ok}
            IN  IF failed # {}
                THEN Err(rs[CHOOSE i \in failed : \A j \in failed : i <= j].err)
                ELSE Ok([n \in FieldNames(ty) |->
                            rs[CHOOSE i \in 1..Len(fs) : fs[i].name = n].val[1]])
    IN  struct(r)

\* a step of an operation: a call or a piece of I/O, and what it is about
Event(op, what) == [op |-> op, what |-> what]

\* the lookups std::env::var(key) that from_env makes, in order: one for
\* each leaf with an env key, up to the first field that fails
RECURSIVE from_env_trace(_, _)
from_env_trace(ty, e) ==
    LET fs == Fields(ty)
        r == [i \in 1..Len(fs) |->
                IF fs[i].nested THEN from_env(fs[i].ty, e)
                ELSE leaf_from_env(ty, fs[i], e)]
        upto(rs) ==
            LET failed == {i \in 1..Len(fs) : ~rs[i].ok}
            IN  IF failed = {} THEN Len(fs)
                ELSE CHOOSE i \in failed : \A j \in failed : i <= j
        steps[i \in 0..Len(fs)] ==
            IF i = 0 THEN <<>>
            ELSE steps[i - 1] \o
                   (IF fs[i].nested THEN from_env_trace(fs[i].ty, e)
                    ELSE IF fs[i].env # None THEN <<Event("env::var", fs[i].env[1])>>
                    ELSE <<>>)
    IN  steps[upto(r)]

-----------------------------------------------------------------------------
(* The environment *)

EnvKeys == {"PORT", "FOO", "BAR", "BAZ", "VALIDATE", "VALIDATE_PARSE"}
Chars == {" ", "0", "1", "x"}
\* the raw values drawn: empty, one character, a padded number, a number
\* followed by garbage, a number of two digits
RawStrings ==
    {<<>>} \cup {<<a>> : a \in Chars}
           \cup {<<" ", "1">>, <<"1", " ">>, <<"1", "x">>, <<"1", "0">>}
EnvValues == {NotUnicode} \cup {Present(s) : s \in RawStrings}

NoEnv == [k \in EnvKeys |-> NotPresent]

\* no from_env has run and nothing is set
EnvIdle ==
    /\ env = NoEnv
    /\ ety = "none"
    /\ eres = NoRes

\* no layers are being merged
LayersIdle ==
    /\ lty = "Tls"
    /\ la = empty("Tls") /\ lb = la /\ lc = la /\ cur = la
    /\ lpc = "idle"
    /\ res = NoRes

\* no Builder exists
BuilderIdle ==
    /\ files = <<>>
    /\ pre = empty("Tls")
    /\ sources = <<>>
    /\ bres = NoRes

\* the caller holds no File
FileIdle ==
    /\ file = None
    /\ fpc = "none"
    /\ fres = NoRes

\* the outcomes of a call that returns a value or panics
NotCalled == [panic |-> FALSE, val |-> <<>>]
Panicked == [panic |-> TRUE, val |-> <<>>]
Returned(v) == [panic |-> FALSE, val |-> <<v>>]

\* default_values() was not called
DefaultsIdle ==
    /\ dty = "none"
    /\ dres = NotCalled

\* no Deserializer was made
DeserializerIdle ==
    /\ pin = <<>>
    /\ pty = "none"
    /\ pout = NoRes

\* Json5Formatter::new with indent 0
NoFormatter ==
    [indent |-> 0, buffer |-> <<>>, depth |-> 0, panicked |-> FALSE, log |-> <<>>]

\* no template is being written
FormatterIdle ==
    /\ fmt = NoFormatter
    /\ fprev = NoFormatter
    /\ fop = None
    /\ tcfg = None

\* no META was generated
MetaIdle == mexpr = None

\* no thread runs Builder::load
ThreadsIdle == th = <<>>

\* from_file was not called
FromFileIdle == ffres = None

\* nothing was called yet
NoCalls ==
    /\ vlog = <<>>
    /\ trace = <<>>

InitEnv ==
    /\ LayersIdle
    /\ BuilderIdle
    /\ NoCalls
    /\ FormatterIdle
    /\ MetaIdle
    /\ ThreadsIdle
    /\ FromFileIdle
    /\ FileIdle
    /\ DefaultsIdle
    /\ DeserializerIdle
    /\ \E ks \in {x \in SUBSET EnvKeys : Cardinality(x) <= MaxEnvSet} :
          \E g \in [ks -> EnvValues] :
              env = [k \in EnvKeys |-> IF k \in ks THEN g[k] ELSE NotPresent]
    /\ ety = "none"
    /\ eres = NoRes

\* <ty as Config>::Layer::from_env()
FromEnv(ty) ==
    /\ ety = "none"
    /\ ety' = ty
    /\ eres' = from_env(ty, env)
    /\ trace' = trace \o from_env_trace(ty, env)
    /\ UNCHANGED <<xvars, dvars, pvars, lvars, env, bvars, vlog, fvars>>

NextEnv == \E ty \in {"Conf", "EnvConf"} : FromEnv(ty)

SpecEnv == InitEnv /\ [][NextEnv]_vars

-----------------------------------------------------------------------------
(* Merging layers *)

InitLayers ==
    /\ lty \in Types
    /\ la \in Layers(lty)
    /\ lb \in Layers(lty)
    /\ lc \in Layers(lty)
    /\ cur = la
    /\ lpc = "a"
    /\ res = NoRes
    /\ EnvIdle
    /\ BuilderIdle
    /\ NoCalls
    /\ FormatterIdle
    /\ MetaIdle
    /\ ThreadsIdle
    /\ FromFileIdle
    /\ FileIdle
    /\ DefaultsIdle
    /\ DeserializerIdle

\* cur.with_fallback(lb)
WithFallbackB ==
    /\ lpc = "a"
    /\ res = NoRes
    /\ cur' = with_fallback(lty, cur, lb)
    /\ lpc' = "ab"
    /\ UNCHANGED <<xvars, dvars, pvars, lty, la, lb, lc, res, evars, bvars, tvars, fvars>>

\* cur.with_fallback(lc)
WithFallbackC ==
    /\ lpc = "ab"
    /\ cur' = with_fallback(lty, cur, lc)
    /\ lpc' = "abc"
    /\ UNCHANGED <<xvars, dvars, pvars, lty, la, lb, lc, res, evars, bvars, tvars, fvars>>

NextMerge == WithFallbackB \/ WithFallbackC

SpecMerge == InitLayers /\ [][NextMerge]_vars

-----------------------------------------------------------------------------
(* Converting a layer *)

InitPair ==
    /\ lty \in Types \cup {"Outer", "Inner"}
    /\ la \in Layers(lty)
    /\ lb \in Layers(lty)
    /\ lc = empty(lty)
    /\ cur = la
    /\ lpc = "a"
    /\ res = NoRes
    /\ EnvIdle
    /\ BuilderIdle
    /\ NoCalls
    /\ FormatterIdle
    /\ MetaIdle
    /\ ThreadsIdle
    /\ FromFileIdle
    /\ FileIdle
    /\ DefaultsIdle
    /\ DeserializerIdle

\* Config::from_layer(cur): consumes the layer
FromLayer ==
    /\ lpc \in {"a", "ab"}
    /\ res = NoRes
    /\ res' = from_partial(lty, cur)
    /\ vlog' = vlog \o struct_validator_calls(lty, cur)
    /\ UNCHANGED <<xvars, dvars, pvars, lty, la, lb, lc, cur, lpc, evars, bvars, trace, fvars>>

NextLayer == WithFallbackB \/ FromLayer

SpecLayer == InitPair /\ [][NextLayer]_vars

-----------------------------------------------------------------------------
(* confique::File, confique::FileFormat and confique::Builder *)

\* <T as Deserialize>::deserialize(into_deserializer(<literal>)): serde's
\* value deserializers hand the literal to the visitor of the field's type,
\* which takes its own kind of value only
deserialize_literal(ty, expr) ==
    CASE ty = "u32" ->
            IF expr.lit = "Int" /\ expr.int >= 0 THEN Ok(expr.int) ELSE Err("DeError")
      [] ty = "String" -> IF expr.lit = "Str" THEN Ok(expr.str) ELSE Err("DeError")
      [] ty = "bool" -> IF expr.lit = "Bool" THEN Ok(expr.bool) ELSE Err("DeError")

\* variant: the default is deserialized without its validator
default_exprs_unvalidated(f) ==
    IF ~f.optional /\ f.default # None
    THEN LET out == deserialize_literal(f.ty, f.default[1])
         IN  IF out.ok THEN Ok(Some(out.val[1])) ELSE Err("panic")
    ELSE Ok(None)

\* default_exprs of a leaf: Some(deserialize_fn(into_deserializer(expr))
\* .expect(msg)) for a leaf with a default, where deserialize_fn validates
\* what it deserialized; None for every other leaf. Err stands for the
\* panic of expect.
default_exprs(f) ==
    IF ~f.optional /\ f.default # None
    THEN LET out == deserialize_literal(f.ty, f.default[1])
         IN  IF out.ok /\ validate_fn(f, out.val[1]).ok
             THEN Ok(Some(out.val[1])) ELSE Err("panic")
    ELSE Ok(None)

\* whether the generated Layer::default_values panics: some expect in it
\* or in the default_values of a nested struct does
RECURSIVE default_values_panics(_)
default_values_panics(ty) ==
    \E n \in FieldNames(ty) :
        IF Field(ty, n).nested THEN default_values_panics(Field(ty, n).ty)
        ELSE ~default_exprs(Field(ty, n)).ok

\* the layer that the generated Layer::default_values returns when it does
\* not panic
RECURSIVE default_values(_)
default_values(ty) ==
    [n \in FieldNames(ty) |->
        IF Field(ty, n).nested THEN default_values(Field(ty, n).ty)
        ELSE default_exprs(Field(ty, n)).val[1]]

Paths == {"app.toml", "app.txt", "app"}

\* the paths given to File::new and File::with_format
FilePaths ==
    Paths \cup {"app.yaml", "app.yml", "app.json5", "app.json", "app.TOML", ".toml"}

\* Path::extension of the paths above: what follows the last dot of the file
\* name, none for a name without dot or with its only dot in front
extension(path) ==
    CASE path = "app.toml" -> Some("toml")
      [] path = "app.txt" -> Some("txt")
      [] path = "app" -> None
      [] path = "app.yaml" -> Some("yaml")
      [] path = "app.yml" -> Some("yml")
      [] path = "app.json5" -> Some("json5")
      [] path = "app.json" -> Some("json")
      [] path = "app.TOML" -> Some("TOML")
      [] path = ".toml" -> None

\* variant: only the extension that is the format's name is known
from_extension_short(ext) ==
    CASE ext = "toml" -> Some("Toml")
      [] ext = "yaml" -> Some("Yaml")
      [] ext = "json5" -> Some("Json5")
      [] OTHER -> None

\* FileFormat::from_extension
from_extension(ext) ==
    CASE ext = "toml" -> Some("Toml")
      [] ext \in {"yaml", "yml"} -> Some("Yaml")
      [] ext \in {"json5", "json"} -> Some("Json5")
      [] OTHER -> None

\* File::with_format
with_format(path, format) == [path |-> path, format |-> format, required |-> FALSE]

\* File::new
File_new(path) ==
    IF extension(path) = None THEN Err(MissingFileExtension(path))
    ELSE IF from_extension(extension(path)[1]) = None
    THEN Err(UnsupportedFileFormat(path))
    ELSE Ok(with_format(path, from_extension(extension(path)[1])[1]))

\* what fs::read finds at a path: nothing, an error other than NotFound, or
\* bytes; doc holds the values that the format's parser reads out of the
\* bytes, when it can parse them
NoFile(ty) == [kind |-> "NotFound", doc |-> empty(ty)]
Denied(ty) == [kind |-> "PermissionDenied", doc |-> empty(ty)]
Malformed(ty) == [kind |-> "Malformed", doc |-> empty(ty)]
Document(l) == [kind |-> "Document", doc |-> l]

\* the generated <ty::Layer as Deserialize>::deserialize of a document: a
\* leaf with a validator is read by __confique_deserialize_some_<field>,
\* which fails on a value that the validator rejects
RECURSIVE deserialize_layer(_, _)
deserialize_layer(ty, doc) ==
    IF \A n \in FieldNames(ty) :
          IF Field(ty, n).nested THEN deserialize_layer(Field(ty, n).ty, doc[n]).ok
          ELSE doc[n] = None \/ validate_fn(Field(ty, n), doc[n][1]).ok
    THEN Ok(doc) ELSE Err("DeError")

\* File::required
required(self) == [self EXCEPT !.required = TRUE]

\* the I/O of File::load: one read of the path
File_load_trace(self) == <<Event("fs::read", self.path)>>

\* variant: a missing required file is reported as the Io error of the read
File_load_required_io(self, ty, fsys) ==
    IF fsys[self.path].kind = "NotFound" /\ ~self.required THEN Ok(empty(ty))
    ELSE IF fsys[self.path].kind \in {"NotFound", "PermissionDenied"}
    THEN Err(Io(self.path))
    ELSE IF fsys[self.path].kind = "Malformed"
            \/ ~deserialize_layer(ty, fsys[self.path].doc).ok
    THEN Err(Deserialization("file '" \o self.path \o "'"))
    ELSE Ok(fsys[self.path].doc)

\* variant: the document is taken as the layer, no validator asked
File_load_unvalidated(self, ty, fsys) ==
    IF fsys[self.path].kind = "NotFound"
    THEN IF self.required THEN Err(MissingRequiredFile(self.path)) ELSE Ok(empty(ty))
    ELSE IF fsys[self.path].kind = "PermissionDenied" THEN Err(Io(self.path))
    ELSE IF fsys[self.path].kind = "Malformed"
    THEN Err(Deserialization("file '" \o self.path \o "'"))
    ELSE Ok(fsys[self.path].doc)

\* File::load::<ty::Layer>
File_load(self, ty, fsys) ==
    IF fsys[self.path].kind = "NotFound"
    THEN IF self.required THEN Err(MissingRequiredFile(self.path)) ELSE Ok(empty(ty))
    ELSE IF fsys[self.path].kind = "PermissionDenied" THEN Err(Io(self.path))
    ELSE IF fsys[self.path].kind = "Malformed"
            \/ ~deserialize_layer(ty, fsys[self.path].doc).ok
    THEN Err(Deserialization("file '" \o self.path \o "'"))
    ELSE Ok(fsys[self.path].doc)

\* the formats of FileFormat
Formats == {"Toml", "Yaml", "Json5"}

\* what may be found at a path when layers of type ty are loaded
FileContents(ty) ==
    {NoFile(ty), Denied(ty), Malformed(ty)} \cup {Document(l) : l \in Layers(ty)}

\* a process with some file system, about to load layers of Tls from files
InitFile ==
    /\ LayersIdle
    /\ EnvIdle
    /\ pre = empty("Tls")
    /\ sources = <<>>
    /\ bres = NoRes
    /\ NoCalls
    /\ FormatterIdle
    /\ MetaIdle
    /\ ThreadsIdle
    /\ FromFileIdle
    /\ \E g \in [Paths -> FileContents("Tls")] :
          files = [p \in FilePaths |-> IF p \in Paths THEN g[p] ELSE NoFile("Tls")]
    /\ FileIdle
    /\ DefaultsIdle
    /\ DeserializerIdle
    /\ DefaultsIdle
    /\ DeserializerIdle

\* File::new(path)
FileNew(path) ==
    /\ fpc = "none"
    /\ fpc' = "new"
    /\ IF File_new(path).ok
       THEN file' = Some(File_new(path).val[1]) /\ fres' = fres
       ELSE file' = file /\ fres' = Err(File_new(path).err)
    /\ UNCHANGED <<xvars, dvars, pvars, lvars, evars, bvars, tvars>>

\* File::with_format(path, format)
FileWithFormat(path, format) ==
    /\ fpc = "none"
    /\ fpc' = "with_format"
    /\ file' = Some(with_format(path, format))
    /\ UNCHANGED <<xvars, dvars, pvars, lvars, evars, bvars, tvars, fres>>

\* File::required()
FileRequired ==
    /\ file # None /\ fres = NoRes
    /\ ~file[1].required
    /\ file' = Some(required(file[1]))
    /\ UNCHANGED <<xvars, dvars, pvars, lvars, evars, bvars, tvars, fpc, fres>>

\* File::load::<Tls::Layer>()
FileLoad ==
    /\ file # None /\ fres = NoRes
    /\ fres' = File_load(file[1], "Tls", files)
    /\ trace' = trace \o File_load_trace(file[1])
    /\ UNCHANGED <<xvars, dvars, pvars, lvars, evars, bvars, vlog, file, fpc>>

NextFile ==
    \/ \E path \in FilePaths : FileNew(path)
    \/ \E path \in FilePaths, format \in Formats : FileWithFormat(path, format)
    \/ FileRequired
    \/ FileLoad

SpecFile == InitFile /\ [][NextFile]_vars

\* enum Source
SourceFile(ty, path) == [kind |-> "File", path |-> path, layer |-> empty(ty)]
SourceEnv(ty) == [kind |-> "Env", path |-> "", layer |-> empty(ty)]
SourcePreloaded(l) == [kind |-> "Preloaded", path |-> "", layer |-> l]

\* the match on the source in the loop of Builder::load
source_layer(ty, source, e, fsys) ==
    LET file_layer(f) == IF ~f.ok THEN Err(f.err) ELSE File_load(f.val[1], ty, fsys)
    IN  CASE source.kind = "File" -> file_layer(File_new(source.path))
          [] source.kind = "Env" -> from_env(ty, e)
          [] source.kind = "Preloaded" -> Ok(source.layer)

\* variant: the file is read before its extension is looked at
source_trace_read_first(ty, source, e, fsys) ==
    CASE source.kind = "File" ->
            <<Event("fs::read", source.path), Event("File::new", source.path)>>
      [] source.kind = "Env" -> from_env_trace(ty, e)
      [] source.kind = "Preloaded" -> <<>>

\* the steps of the match on the source in the loop of Builder::load
source_trace(ty, source, e, fsys) ==
    LET file_steps(f) == IF f.ok THEN File_load_trace(f.val[1]) ELSE <<>>
    IN  CASE source.kind = "File" ->
                <<Event("File::new", source.path)>> \o file_steps(File_new(source.path))
          [] source.kind = "Env" -> from_env_trace(ty, e)
          [] source.kind = "Preloaded" -> <<>>

\* variant: a later source overrides the earlier ones
RECURSIVE load_sources_last_wins(_, _, _, _, _, _)
load_sources_last_wins(ty, srcs, i, partial, e, fsys) ==
    IF i > Len(srcs) THEN Ok(partial)
    ELSE LET layer == source_layer(ty, srcs[i], e, fsys)
         IN  IF ~layer.ok THEN Err(layer.err)
             ELSE load_sources_last_wins(ty, srcs, i + 1,
                      with_fallback(ty, layer.val[1], partial), e, fsys)

\* the loop of Builder::load from the i-th source on, partial being the
\* layer merged so far
RECURSIVE load_sources(_, _, _, _, _, _)
load_sources(ty, srcs, i, partial, e, fsys) ==
    LET next(layer) ==
            IF ~layer.ok THEN Err(layer.err)
            ELSE load_sources(ty, srcs, i + 1,
                     with_fallback(ty, partial, layer.val[1]), e, fsys)
    IN  IF i > Len(srcs) THEN Ok(partial)
        ELSE next(source_layer(ty, srcs[i], e, fsys))

\* variant: a source that fails is skipped and the loop goes on
RECURSIVE load_trace_keep_going(_, _, _, _, _)
load_trace_keep_going(ty, srcs, i, e, fsys) ==
    IF i > Len(srcs)
    THEN <<Event("default_values", ty), Event("from_layer", ty)>>
    ELSE source_trace(ty, srcs[i], e, fsys) \o
            load_trace_keep_going(ty, srcs, i + 1, e, fsys)

\* the steps of Builder::<ty>::load from the i-th source on: the sources in
\* order up to the first that fails, then default_values and from_layer
RECURSIVE load_trace(_, _, _, _, _)
load_trace(ty, srcs, i, e, fsys) ==
    LET rest(layer) ==
            IF ~layer.ok THEN <<>> ELSE load_trace(ty, srcs, i + 1, e, fsys)
    IN  IF i > Len(srcs)
        THEN <<Event("default_values", ty), Event("from_layer", ty)>>
        ELSE source_trace(ty, srcs[i], e, fsys) \o
                rest(source_layer(ty, srcs[i], e, fsys))

\* Builder::<ty>::load
load(ty, srcs, e, fsys) ==
    LET from_layer(partial) ==
            IF ~partial.ok THEN Err(partial.err)
            ELSE from_partial(ty, with_fallback(ty, partial.val[1], default_values(ty)))
    IN  from_layer(load_sources(ty, srcs, 1, empty(ty), e, fsys))

\* variant: the struct-level validator is also asked about every source
\* layer that is complete
load_validator_calls_per_source(ty, srcs, e, fsys) ==
    LET partial == load_sources(ty, srcs, 1, empty(ty), e, fsys)
        RECURSIVE each(_)
        each(i) ==
            IF i > Len(srcs) THEN <<>>
            ELSE struct_validator_calls(ty, source_layer(ty, srcs[i], e, fsys).val[1])
                    \o each(i + 1)
    IN  IF ~partial.ok THEN <<>>
        ELSE each(1) \o struct_validator_calls(ty,
                 with_fallback(ty, partial.val[1], default_values(ty)))

\* the calls of validate_struct that Builder::<ty>::load makes: those of the
\* from_layer at its end, when the sources all load
load_validator_calls(ty, srcs, e, fsys) ==
    LET from_layer(partial) ==
            IF ~partial.ok THEN <<>>
            ELSE struct_validator_calls(ty,
                     with_fallback(ty, partial.val[1], default_values(ty)))
    IN  from_layer(load_sources(ty, srcs, 1, empty(ty), e, fsys))

\* values of PORT in the environment of a Builder
BuilderEnvValues ==
    {NotPresent, Present(<<>>), Present(<<"0">>), Present(<<"1">>), Present(<<"x">>)}

\* the layers handed to Builder::preloaded: they leave http.port to the
\* other sources, and the cert they hold, if any, is the empty one
PreloadedLayers ==
    {l \in Layers("Conf") :
        l.http.port = None /\ l.http.tls.cert \in {None, Some(<<>>)}}

\* Config::builder() of Conf in a process with some environment, some file
\* system, where app.toml leaves debug to the other sources, and some layer
\* at hand
InitBuilder ==
    /\ LayersIdle
    /\ \E v \in BuilderEnvValues : env = [NoEnv EXCEPT !["PORT"] = v]
    /\ ety = "none"
    /\ eres = NoRes
    /\ \E c \in {NoFile("Conf"), Denied("Conf"), Malformed("Conf")}
                    \cup {Document(l) : l \in {d \in Layers("Conf") : d.debug = None}} :
          files = [p \in Paths |-> IF p = "app.toml" THEN c ELSE NoFile("Conf")]
    /\ pre \in PreloadedLayers
    /\ sources = <<>>
    /\ bres = NoRes
    /\ NoCalls
    /\ FormatterIdle
    /\ MetaIdle
    /\ ThreadsIdle
    /\ FromFileIdle
    /\ FileIdle
    /\ DefaultsIdle
    /\ DeserializerIdle

\* Builder::file(path)
BuilderFile(path) ==
    /\ bres = NoRes
    /\ Len(sources) < MaxSources
    /\ sources' = Append(sources, SourceFile("Conf", path))
    /\ UNCHANGED <<xvars, dvars, pvars, lvars, evars, files, pre, bres, tvars, fvars>>

\* Builder::env()
BuilderEnv ==
    /\ bres = NoRes
    /\ Len(sources) < MaxSources
    /\ sources' = Append(sources, SourceEnv("Conf"))
    /\ UNCHANGED <<xvars, dvars, pvars, lvars, evars, files, pre, bres, tvars, fvars>>

\* Builder::preloaded(pre)
BuilderPreloaded ==
    /\ bres = NoRes
    /\ Len(sources) < MaxSources
    /\ sources' = Append(sources, SourcePreloaded(pre))
    /\ UNCHANGED <<xvars, dvars, pvars, lvars, evars, files, pre, bres, tvars, fvars>>

\* Builder::load(): consumes the builder
BuilderLoad ==
    /\ bres = NoRes
    /\ bres' = load("Conf", sources, env, files)
    /\ vlog' = vlog \o load_validator_calls("Conf", sources, env, files)
    /\ trace' = trace \o load_trace("Conf", sources, 1, env, files)
    /\ UNCHANGED <<xvars, dvars, pvars, lvars, evars, files, pre, sources, fvars>>

Next ==
    \/ \E path \in Paths : BuilderFile(path)
    \/ BuilderEnv
    \/ BuilderPreloaded
    \/ BuilderLoad

Spec == InitBuilder /\ [][Next]_vars

-----------------------------------------------------------------------------
(* Two threads, each in Builder::load of its own Builder<Conf> *)

Threads == {1, 2}

\* the values of PORT, what is found at app.toml and the layer at hand
ThreadEnvValues == {NotPresent, Present(<<"1">>), Present(<<"x">>)}
ThreadDocs ==
    {l \in Layers("Conf") :
        /\ l.debug \in {None, Some(TRUE)}
        /\ l.http.port \in {None, Some(2)}
        /\ l.http.tls.cert = None}
ThreadPreloaded ==
    CHOOSE l \in Layers("Conf") :
        l.debug = Some(FALSE) /\ l.http.port = None /\ l.http.tls.cert = Some(<<>>)

\* the sources of a Builder
ThreadSources ==
    {<<SourceEnv("Conf")>>,
     <<SourceFile("Conf", "app.toml"), SourceEnv("Conf")>>,
     <<SourcePreloaded(ThreadPreloaded), SourceFile("Conf", "app.toml")>>,
     <<SourceEnv("Conf"), SourceFile("Conf", "app")>>,
     <<SourceEnv("Conf"), SourcePreloaded(ThreadPreloaded)>>}

\* a thread that called load(self): self.sources, the position of the loop,
\* its local partial and the result once it returned
Loading(srcs) == [srcs |-> srcs, i |-> 1, partial |-> empty("Conf"), res |-> NoRes]

\* variant: one accumulator for all calls
partial_shared(threads, t) == threads[1].partial

\* let mut partial: a local of the call of thread t
partial_of(threads, t) == threads[t].partial

\* one iteration of the loop of Builder::load, or what follows the loop
load_step(ty, self, partial, e, fsys) ==
    LET next(layer) ==
            IF ~layer.ok THEN [self EXCEPT !.res = Err(layer.err)]
            ELSE [self EXCEPT !.partial = with_fallback(ty, partial, layer.val[1]),
                              !.i = self.i + 1]
    IN  IF self.i > Len(self.srcs)
        THEN [self EXCEPT !.res =
                from_partial(ty, with_fallback(ty, partial, default_values(ty)))]
        ELSE next(source_layer(ty, self.srcs[self.i], e, fsys))

\* a process with some environment and some file system, and two threads
\* that each built a Builder<Conf> and called load
InitThreads ==
    /\ LayersIdle
    /\ \E v \in ThreadEnvValues : env = [NoEnv EXCEPT !["PORT"] = v]
    /\ ety = "none"
    /\ eres = NoRes
    /\ \E c \in {NoFile("Conf"), Malformed("Conf")} \cup {Document(l) : l \in ThreadDocs} :
          files = [p \in Paths |-> IF p = "app.toml" THEN c ELSE NoFile("Conf")]
    /\ pre = empty("Tls")
    /\ sources = <<>>
    /\ bres = NoRes
    /\ NoCalls
    /\ FormatterIdle
    /\ MetaIdle
    /\ \E a \in ThreadSources, b \in ThreadSources : th = <<Loading(a), Loading(b)>>
    /\ FromFileIdle
    /\ FileIdle
    /\ DefaultsIdle
    /\ DeserializerIdle

\* thread t runs one step of its load
ThreadStep(t) ==
    /\ th[t].res = NoRes
    /\ th' = [th EXCEPT ![t] = load_step("Conf", th[t], partial_of(th, t), env, files)]
    /\ UNCHANGED <<lvars, evars, bvars, tvars, fvars, dvars, pvars, jvars, mexpr, ffres>>

NextThreads == \E t \in Threads : ThreadStep(t)

SpecThreads == InitThreads /\ [][NextThreads]_vars

-----------------------------------------------------------------------------
(* Config::from_file *)

\* variant: the file is never marked as required
from_file_optional(ty, path, fsys) ==
    LET from_layer(l) ==
            IF ~l.ok THEN Err(l.err)
            ELSE from_partial(ty, with_fallback(ty, l.val[1], default_values(ty)))
        load_file(f) ==
            IF ~f.ok THEN Err(f.err) ELSE from_layer(File_load(f.val[1], ty, fsys))
    IN  load_file(File_new(path))

\* <ty as Config>::from_file(path)
from_file(ty, path, fsys) ==
    LET from_layer(l) ==
            IF ~l.ok THEN Err(l.err)
            ELSE from_partial(ty, with_fallback(ty, l.val[1], default_values(ty)))
        load_file(f) ==
            IF ~f.ok THEN Err(f.err)
            ELSE from_layer(File_load(IF ~is_complete(ty, default_values(ty))
                                      THEN required(f.val[1]) ELSE f.val[1],
                                      ty, fsys))
    IN  load_file(File_new(path))

\* the structs loaded with from_file: Listen has a default for every required
\* value, Tls and Conf have not
FromFileTypes == {"Tls", "Listen", "Conf"}

\* a process with some file system: app.toml may be there, the other paths
\* are not
InitFromFile ==
    /\ LayersIdle
    /\ EnvIdle
    /\ pre = empty("Tls")
    /\ sources = <<>>
    /\ bres = NoRes
    /\ NoCalls
    /\ FormatterIdle
    /\ MetaIdle
    /\ ThreadsIdle
    /\ FromFileIdle
    /\ FileIdle
    /\ DefaultsIdle
    /\ DeserializerIdle
    /\ \E ty \in FromFileTypes : \E c \in FileContents(ty) :
          files = [p \in FilePaths |-> IF p = "app.toml" THEN c ELSE NoFile(ty)]

\* <ty as Config>::from_file(path)
FromFile(ty, path) ==
    /\ ffres = None
    /\ files["app"] = NoFile(ty)
    /\ ffres' = Some([ty |-> ty, path |-> path, res |-> from_file(ty, path, files)])
    /\ UNCHANGED <<lvars, evars, bvars, tvars, fvars, dvars, pvars, jvars, mexpr, th>>

NextFromFile == \E ty \in FromFileTypes, path \in FilePaths : FromFile(ty, path)

SpecFromFile == InitFromFile /\ [][NextFromFile]_vars

-----------------------------------------------------------------------------
(* The default values of META: gen/meta.rs *)

\* a default array holds at most MaxItems items
MaxItems == 2

\* ir::Expr and ir::MapKey: the literal of #[config(default = ...)] with its
\* suffix ("" if it has none), the items of an array, the entries of a map
LitInt(suffix) == [lit |-> "Int", suffix |-> suffix, items |-> <<>>]
LitFloat(suffix) == [lit |-> "Float", suffix |-> suffix, items |-> <<>>]
LitBool == [lit |-> "Bool", suffix |-> "", items |-> <<>>]
LitStr == [lit |-> "Str", suffix |-> "", items |-> <<>>]
LitArray(items) == [lit |-> "Array", suffix |-> "", items |-> items]
LitMap(entries) == [lit |-> "Map", suffix |-> "", items |-> entries]

\* syn::Type: Type::Path with the number of its segments, the identifier of
\* the last one and its generic arguments; Type::Slice, Array, Reference,
\* Paren, Group with the inner type as args[1]; any other type
TyPath(segments, ident, args) ==
    [kind |-> "Path", segments |-> segments, ident |-> ident, args |-> args]
TyOf(kind, elem) == [kind |-> kind, segments |-> 0, ident |-> "", args |-> <<elem>>]
TyOther == [kind |-> "Tuple", segments |-> 0, ident |-> "", args |-> <<>>]

\* the variant of meta::Integer or meta::Float named after a type
Variant(name) ==
    CASE name = "u8" -> "U8" [] name = "u16" -> "U16" [] name = "u32" -> "U32"
      [] name = "u64" -> "U64" [] name = "u128" -> "U128" [] name = "usize" -> "Usize"
      [] name = "i8" -> "I8" [] name = "i16" -> "I16" [] name = "i32" -> "I32"
      [] name = "i64" -> "I64" [] name = "i128" -> "I128" [] name = "isize" -> "Isize"
      [] name = "f32" -> "F32" [] name = "f64" -> "F64"

IntTypes == {"u8", "u16", "u32", "u64", "u128", "usize",
             "i8", "i16", "i32", "i64", "i128", "isize"}
FloatTypes == {"f32", "f64"}

int_type_to_variant(suffix) ==
    IF suffix \in IntTypes THEN Some(Variant(suffix)) ELSE None

float_type_to_variant(suffix) ==
    IF suffix \in FloatTypes THEN Some(Variant(suffix)) ELSE None

\* a function passed to infer_type, by its name
call_map(map, name) ==
    IF map = "int_type_to_variant" THEN int_type_to_variant(name)
    ELSE float_type_to_variant(name)

\* Path::get_ident: the path is one segment without arguments
get_ident(ty) ==
    IF ty.kind = "Path" /\ ty.segments = 1 /\ ty.args = <<>> THEN Some(ty.ident)
    ELSE None

\* variant: the field's type is asked before the suffix of the literal
infer_type_field_first(suffix, field_ty, default, map) ==
    LET of_ident(i) == IF i # None THEN call_map(map, i[1]) ELSE None
        of_field == IF field_ty # None THEN of_ident(get_ident(field_ty[1])) ELSE None
    IN  IF of_field # None THEN of_field[1]
        ELSE IF call_map(map, suffix) # None THEN call_map(map, suffix)[1]
        ELSE default

\* map(suffix).or_else(|| the field type's identifier mapped).unwrap_or(default)
infer_type(suffix, field_ty, default, map) ==
    LET of_ident(i) == IF i # None THEN call_map(map, i[1]) ELSE None
        of_field == IF field_ty # None THEN of_ident(get_ident(field_ty[1])) ELSE None
    IN  IF call_map(map, suffix) # None THEN call_map(map, suffix)[1]
        ELSE IF of_field # None THEN of_field[1]
        ELSE default

RECURSIVE get_array_item_type(_)
get_array_item_type(ty) ==
    CASE ty.kind \in {"Slice", "Array"} -> Some(ty.args[1])
      [] ty.kind = "Path" -> (IF Len(ty.args) = 1 THEN Some(ty.args[1]) ELSE None)
      [] ty.kind \in {"Reference", "Group", "Paren"} -> get_array_item_type(ty.args[1])
      [] OTHER -> None

RECURSIVE get_map_entry_types(_)
get_map_entry_types(ty) ==
    CASE ty.kind = "Path" ->
            (IF Len(ty.args) = 2 THEN Some(<<ty.args[1], ty.args[2]>>) ELSE None)
      [] ty.kind \in {"Group", "Paren"} -> get_map_entry_types(ty.args[1])
      [] OTHER -> None

\* meta::Expr and meta::MapKey
Meta(kind, variant, items) == [kind |-> kind, variant |-> variant, items |-> items]

\* match_literals!: the arms of the literals that are no array and no map
match_literals(v, ty) ==
    CASE v.lit = "Bool" -> Meta("Bool", "", <<>>)
      [] v.lit = "Str" -> Meta("Str", "", <<>>)
      [] v.lit = "Int" ->
            Meta("Integer", infer_type(v.suffix, ty, "I32", "int_type_to_variant"), <<>>)
      [] v.lit = "Float" ->
            Meta("Float", infer_type(v.suffix, ty, "F64", "float_type_to_variant"), <<>>)

RECURSIVE default_value_to_meta_expr(_, _)
default_value_to_meta_expr(default, ty) ==
    CASE default.lit = "Array" ->
            LET item_type == IF ty # None THEN get_array_item_type(ty[1]) ELSE None
            IN  Meta("Array", "",
                     [i \in 1..Len(default.items) |->
                        default_value_to_meta_expr(default.items[i], item_type)])
      [] default.lit = "Map" ->
            LET types == IF ty # None THEN get_map_entry_types(ty[1]) ELSE None
                key_type == IF types # None THEN Some(types[1][1]) ELSE None
                value_type == IF types # None THEN Some(types[1][2]) ELSE None
            IN  Meta("Map", "",
                     [i \in 1..Len(default.items) |->
                        [key |-> match_literals(default.items[i].key, key_type),
                         value |-> default_value_to_meta_expr(default.items[i].value,
                                                              value_type)]])
      [] OTHER -> match_literals(default, ty)

\* the literals and the field types drawn
ScalarLits == {LitInt(""), LitInt("u16"), LitFloat(""), LitFloat("f32"), LitBool, LitStr}
Lits ==
    ScalarLits
    \cup {LitArray(items) : items \in UNION {[1..n -> ScalarLits] : n \in 1..MaxItems}}
    \cup {LitMap(<<[key |-> k, value |-> v]>>) : k \in ScalarLits, v \in ScalarLits}
ScalarTypes ==
    {TyPath(1, "u8", <<>>), TyPath(1, "i64", <<>>), TyPath(1, "f32", <<>>),
     TyPath(1, "String", <<>>), TyPath(3, "u8", <<>>)}
FieldTypes ==
    ScalarTypes \cup {TyOther, TyPath(3, "Duration", <<>>)}
    \cup {TyPath(1, "Vec", <<t>>) : t \in ScalarTypes}
    \cup {TyPath(3, "LinkedList", <<t>>) : t \in ScalarTypes}
    \cup {TyOf("Array", t) : t \in ScalarTypes}
    \cup {TyOf("Reference", TyOf("Slice", t)) : t \in ScalarTypes}
    \cup {TyOf("Paren", TyPath(1, "Vec", <<t>>)) : t \in ScalarTypes}
    \cup {TyPath(1, "HashMap", <<k, v>>) : k \in ScalarTypes, v \in ScalarTypes}

InitMeta ==
    /\ LayersIdle
    /\ EnvIdle
    /\ BuilderIdle
    /\ NoCalls
    /\ FormatterIdle
    /\ MetaIdle
    /\ ThreadsIdle
    /\ FromFileIdle
    /\ FileIdle
    /\ DefaultsIdle
    /\ DeserializerIdle

\* gen: the meta::Expr of a field's default, default_value_to_meta_expr(default, Some(&ty))
GenMeta(default, ty) ==
    /\ mexpr = None
    /\ mexpr' = Some([default |-> default, ty |-> ty,
                      meta |-> default_value_to_meta_expr(default, Some(ty))])
    /\ UNCHANGED <<lvars, evars, bvars, tvars, fvars, dvars, pvars, jvars, th, ffres>>

NextMeta == \E default \in Lits, ty \in FieldTypes : GenMeta(default, ty)

SpecMeta == InitMeta /\ [][NextMeta]_vars

-----------------------------------------------------------------------------
(* env::Deserializer on its own: the function de of env/tests.rs *)

\* the values drawn: the words of deserialize_bool in lower, upper and
\* capitalised spelling, the digits, strings that are none of them, all of
\* them bare and padded with whitespace
DeStrings ==
    LET bodies ==
            {true, <<"T", "R", "U", "E">>, <<"T", "r", "u", "e">>,
             yes, <<"Y", "E", "S">>, <<"Y", "e", "s">>,
             false, <<"F", "A", "L", "S", "E">>, <<"F", "a", "l", "s", "e">>,
             no, <<"N", "O">>, <<"N", "o">>,
             <<"1">>, <<"0">>, <<"2">>, <<"1", "0">>, <<"+", "1">>,
             <<>>, <<"t">>, <<"y">>, <<"o", "n">>, <<"t", "r", "u">>,
             <<"t", "r", "u", "e", "e">>, <<"n", " ", "o">>, <<"y", "e", "z">>,
             <<"x">>}
    IN  bodies \cup {<<" ">> \o b : b \in bodies}
               \cup {b \o <<" ">> : b \in bodies}
               \cup {<<" ", "\t">> \o b \o <<" ">> : b \in bodies}

\* Deserializer { value: v.into() }
InitDeserializer ==
    /\ LayersIdle
    /\ EnvIdle
    /\ BuilderIdle
    /\ NoCalls
    /\ FormatterIdle
    /\ MetaIdle
    /\ ThreadsIdle
    /\ FromFileIdle
    /\ FileIdle
    /\ DefaultsIdle
    /\ pin \in DeStrings
    /\ pty = "none"
    /\ pout = NoRes

\* T::deserialize(Deserializer { value })
Deserialize(ty) ==
    /\ pty = "none"
    /\ pty' = ty
    /\ pout' = deserialize(ty, pin)
    /\ UNCHANGED <<xvars, lvars, evars, bvars, tvars, fvars, dvars, pin>>

NextDeserializer == \E ty \in {"bool", "u32", "String"} : Deserialize(ty)

SpecDeserializer == InitDeserializer /\ [][NextDeserializer]_vars

-----------------------------------------------------------------------------
(* Layer::default_values() of the structs of a program *)

DefaultTypes ==
    {"Conf", "Http", "Tls", "EnvConf", "Defaults", "BadValidated", "BadValidatedStr",
     "BadLiteral", "BadLiteralInt", "BadNested"}

\* a process with some environment and some file system: what the user of
\* the program controls
InitDefaults ==
    /\ LayersIdle
    /\ \E ks \in {x \in SUBSET EnvKeys : Cardinality(x) <= 1} :
          \E g \in [ks -> EnvValues] :
              env = [k \in EnvKeys |-> IF k \in ks THEN g[k] ELSE NotPresent]
    /\ ety = "none"
    /\ eres = NoRes
    /\ \E c \in FileContents("Tls") :
          files = [p \in Paths |-> IF p = "app.toml" THEN c ELSE NoFile("Tls")]
    /\ pre = empty("Tls")
    /\ sources = <<>>
    /\ bres = NoRes
    /\ NoCalls
    /\ FormatterIdle
    /\ MetaIdle
    /\ ThreadsIdle
    /\ FromFileIdle
    /\ FileIdle
    /\ DefaultsIdle
    /\ DeserializerIdle

\* <ty as Config>::Layer::default_values()
DefaultValues(ty) ==
    /\ dty = "none"
    /\ dty' = ty
    /\ dres' = IF default_values_panics(ty) THEN Panicked
               ELSE Returned(default_values(ty))
    /\ UNCHANGED <<xvars, lvars, evars, bvars, tvars, fvars, pvars>>

NextDefaults == \E ty \in DefaultTypes : DefaultValues(ty)

SpecDefaults == InitDefaults /\ [][NextDefaults]_vars

-----------------------------------------------------------------------------
(* Configuration templates: template::Formatter, template::format and the  *)
(* JSON5 formatter. A buffer is a sequence of chunks: "\n", " " or the     *)
(* text of a line without its indentation.                                *)

\* a buffer in SpecTemplate holds at most MaxBuffer chunks
MaxBuffer == 4
\* gaps of 0..MaxGap lines
MaxGap == 2
\* an indentation of 0..MaxIndent spaces per level
MaxIndent == 1

\* ghost: the call of the Formatter method op is noted with the depth it
\* finds. A panic unwinds: nothing is written or noted after it.
noted(self, op) ==
    IF self.panicked THEN self
    ELSE [self EXCEPT !.log = @ \o <<[op |-> op, depth |-> self.depth]>>]

\* String::push / push_str / write! on the buffer
push_str(self, chunks) ==
    IF self.panicked THEN self ELSE [self EXCEPT !.buffer = @ \o chunks]

\* Json5Formatter::new
Json5Formatter_new(options) ==
    [indent |-> options.indent, buffer |-> <<>>, depth |-> 0,
     panicked |-> FALSE, log |-> <<>>]

\* write!(self.buffer, "{: <1$}", "", num_spaces)
Spaces(num_spaces) == [i \in 1..num_spaces |-> " "]

emit_indentation(self) ==
    IF self.panicked THEN self
    ELSE [self EXCEPT !.buffer = @ \o Spaces(self.depth * self.indent)]

\* self.depth += 1
inc_depth(self) == IF self.panicked THEN self ELSE [self EXCEPT !.depth = @ + 1]

\* variant: the depth is left as it is
dec_depth_skipped(self) == self

\* checked_sub(1).expect(..)
dec_depth(self) ==
    IF self.panicked THEN self
    ELSE IF self.depth = 0 THEN [self EXCEPT !.panicked = TRUE]
    ELSE [self EXCEPT !.depth = @ - 1]

\* self.emit_indentation(); writeln!(self.buffer, "//{comment}")
comment(self, text) ==
    IF self.panicked THEN self
    ELSE [self EXCEPT !.buffer = @ \o Spaces(self.depth * self.indent)
                                   \o <<"//" \o text, "\n">>]

RECURSIVE StrOf(_)
StrOf(s) == IF s = <<>> THEN "" ELSE Head(s) \o StrOf(Tail(s))

\* PrintExpr: json5::to_string of the meta::Expr
PrintExpr(v) ==
    CASE v.lit = "Int" -> ToString(v.int)
      [] v.lit = "Bool" -> (IF v.bool THEN "true" ELSE "false")
      [] v.lit = "Str" -> "\"" \o StrOf(v.str) \o "\""

disabled_field(self, name, value) ==
    IF value = None
    THEN comment(noted(self, "disabled_field"), name \o ": ,")
    ELSE comment(noted(self, "disabled_field"),
                 name \o ": " \o PrintExpr(value[1]) \o ",")

RECURSIVE comments(_, _)
comments(self, doc) ==
    IF doc = <<>> THEN self ELSE comments(comment(self, Head(doc)), Tail(doc))

start_nested(self, name, doc) ==
    inc_depth(push_str(emit_indentation(comments(noted(self, "start_nested"), doc)),
                       <<name \o ": {", "\n">>))

end_nested(self) ==
    push_str(emit_indentation(dec_depth(noted(self, "end_nested"))), <<"},", "\n">>)

start_main(self) ==
    inc_depth(push_str(noted(self, "start_main"), <<"{", "\n">>))

end_main(self) ==
    push_str(dec_depth(noted(self, "end_main")), <<"}", "\n">>)

\* assert_eq!(self.depth, 0, ..); self.buffer
finish(self) ==
    IF self.panicked THEN self
    ELSE IF self.depth # 0 THEN [self EXCEPT !.panicked = TRUE]
    ELSE noted(self, "finish")

\* the text of env_comment; the backquotes around the key are written '
EnvNote(env_key) ==
    " Can also be specified via environment variable '" \o env_key \o "'."

env_comment(self, env_key) == comment(self, EnvNote(env_key))

default_or_required_comment(self, default_value) ==
    IF default_value = None
    THEN comment(self, " Required! This value must be specified.")
    ELSE comment(self, " Default value: " \o PrintExpr(default_value[1]))

\* .chars().rev().take_while(|c| *c == '\n').count()
RECURSIVE num_trailing_newlines(_)
num_trailing_newlines(buffer) ==
    IF buffer = <<>> \/ buffer[Len(buffer)] # "\n" THEN 0
    ELSE 1 + num_trailing_newlines(SubSeq(buffer, 1, Len(buffer) - 1))

Newlines(n) == [i \in 1..n |-> "\n"]

\* variant: the newlines are pushed whatever the buffer ends with
make_gap_always(self, size) ==
    IF self.buffer # <<>> THEN push_str(self, Newlines(size + 1)) ELSE self

make_gap(self, size) ==
    IF self.buffer # <<>>
    THEN LET \* (size as usize + 1).saturating_sub(num_trailing_newlines)
             newlines_needed(num) == IF size + 1 > num THEN size + 1 - num ELSE 0
         IN  push_str(self, Newlines(newlines_needed(num_trailing_newlines(self.buffer))))
    ELSE self

\* while buffer.ends_with("\n\n") { buffer.pop(); }
RECURSIVE pop_newlines(_)
pop_newlines(buffer) ==
    IF Len(buffer) >= 2 /\ buffer[Len(buffer)] = "\n" /\ buffer[Len(buffer) - 1] = "\n"
    THEN pop_newlines(SubSeq(buffer, 1, Len(buffer) - 1))
    ELSE buffer

\* variant: a newline is pushed whatever the buffer ends with
assert_single_trailing_newline_push(self) == push_str(self, <<"\n">>)

assert_single_trailing_newline(self) ==
    IF self.buffer # <<>> /\ self.buffer[Len(self.buffer)] = "\n"
    THEN [self EXCEPT !.buffer = pop_newlines(@)]
    ELSE push_str(self, <<"\n">>)

\* template::FormatOptions and json5::FormatOptions
GeneralOptions ==
    [comments : BOOLEAN, env_keys : BOOLEAN,
     leaf_field_gap : {None} \cup {Some(g) : g \in 0..MaxGap},
     nested_field_gap : 0..MaxGap]
FormatOptions == [indent : 0..MaxIndent, general : GeneralOptions]

\* self.leaf_field_gap.unwrap_or(self.comments as u8)
leaf_field_gap(options) ==
    IF options.leaf_field_gap # None THEN options.leaf_field_gap[1]
    ELSE IF options.comments THEN 1 ELSE 0

\* a call of a method of the Formatter: its name and its arguments
Call(op, text, value, size, doc) ==
    [op |-> op, text |-> text, value |-> value, size |-> size, doc |-> doc]

Comments(doc) == [i \in 1..Len(doc) |-> Call("comment", doc[i], None, 0, <<>>)]

\* the default the generated META holds for the field: default_value_to_meta_expr
MetaDefault(f) == f.default

\* empty_sep_doc_line!(): emitted_something is !field.doc.is_empty()
empty_sep_doc_line(doc) ==
    IF doc # <<>> THEN <<Call("comment", "", None, 0, <<>>)>> ELSE <<>>

\* if options.comments { .. if let Some(env) = env { empty_sep_doc_line!();
\* out.env_comment(env); } }
env_note(options, f, doc) ==
    IF options.comments /\ f.env # None
    THEN empty_sep_doc_line(doc) \o <<Call("env_comment", f.env[1], None, 0, <<>>)>>
    ELSE <<>>

\* out.make_gap(options.nested_field_gap)
nested_gap(options) ==
    <<Call("make_gap", "", None, options.nested_field_gap, <<>>)>>

\* the calls of one iteration of the loop over the leaf fields: i counts
\* from 0
format_leaf(options, ty, f, i) ==
    LET doc == Doc(ty, f.name)
        gap == IF i > 0
               THEN <<Call("make_gap", "", None, leaf_field_gap(options), <<>>)>>
               ELSE <<>>
        docs == IF options.comments THEN Comments(doc) ELSE <<>>
        note == IF options.comments
                THEN empty_sep_doc_line(doc)
                     \o <<Call("default_or_required_comment", "", MetaDefault(f), 0, <<>>)>>
                ELSE <<>>
        field == IF f.optional
                 THEN <<Call("disabled_field", f.name, None, 0, <<>>)>>
                 ELSE note \o <<Call("disabled_field", f.name, MetaDefault(f), 0, <<>>)>>
    IN  gap \o docs \o env_note(options, f, doc) \o field

leaf_fields(ty) == SelectSeq(Fields(ty), LAMBDA f : ~f.nested)
nested_fields(ty) == SelectSeq(Fields(ty), LAMBDA f : f.nested)

\* the calls of the Formatter that format_impl(out, meta, options) makes, in
\* order: the leaf fields first, then the nested fields recursively
RECURSIVE format_impl(_, _)
format_impl(ty, options) ==
    LET leaves[i \in 0..Len(leaf_fields(ty))] ==
            IF i = 0 THEN <<>>
            ELSE leaves[i - 1] \o format_leaf(options, ty, leaf_fields(ty)[i], i - 1)
        \* emitted_anything holds once a field was written
        one_nested(f, emitted_anything) ==
            (IF emitted_anything
             THEN nested_gap(options) ELSE <<>>)
            \o <<Call("start_nested", f.name, None, 0,
                      IF options.comments THEN Doc(ty, f.name) ELSE <<>>)>>
            \o format_impl(f.ty, options)
            \o <<Call("end_nested", "", None, 0, <<>>)>>
        nesteds[j \in 0..Len(nested_fields(ty))] ==
            IF j = 0 THEN leaves[Len(leaf_fields(ty))]
            ELSE nesteds[j - 1]
                 \o one_nested(nested_fields(ty)[j], Len(leaf_fields(ty)) > 0 \/ j > 1)
    IN  nesteds[Len(nested_fields(ty))]

\* the calls of template::format::<C>(out, options)
format(ty, options) ==
    (IF options.comments THEN Comments(Doc(ty, "")) ELSE <<>>)
    \o <<Call("start_main", "", None, 0, <<>>)>>
    \o format_impl(ty, options)
    \o <<Call("end_main", "", None, 0, <<>>),
         Call("assert_single_trailing_newline", "", None, 0, <<>>)>>

\* the calls of json5::template::<C>(options) on Json5Formatter::new(&options)
template(ty, options) ==
    format(ty, options.general) \o <<Call("finish", "", None, 0, <<>>)>>

\* the Formatter after the call
Apply(self, call) ==
    CASE call.op = "comment" -> comment(self, call.text)
      [] call.op = "env_comment" -> env_comment(self, call.text)
      [] call.op = "default_or_required_comment" ->
            default_or_required_comment(self, call.value)
      [] call.op = "disabled_field" -> disabled_field(self, call.text, call.value)
      [] call.op = "make_gap" -> make_gap(self, call.size)
      [] call.op = "start_nested" -> start_nested(self, call.text, call.doc)
      [] call.op = "end_nested" -> end_nested(self)
      [] call.op = "start_main" -> start_main(self)
      [] call.op = "end_main" -> end_main(self)
      [] call.op = "assert_single_trailing_newline" ->
            assert_single_trailing_newline(self)
      [] call.op = "finish" -> finish(self)
      [] call.op = "push" -> push_str(self, <<call.text>>)

\* the structs a template is asked for
TemplateTypes == {"Conf", "Http", "Tls", "Defaults", "Outer", "Inner", "Nests", "Unit"}

InitTemplate ==
    /\ LayersIdle
    /\ EnvIdle
    /\ BuilderIdle
    /\ NoCalls
    /\ FileIdle
    /\ DefaultsIdle
    /\ DeserializerIdle
    /\ MetaIdle
    /\ ThreadsIdle
    /\ FromFileIdle
    /\ FormatterIdle

\* json5::template::<ty>(options) is entered: Json5Formatter::new(&options)
Template(ty, options) ==
    /\ tcfg = None
    /\ fop = None
    /\ tcfg' = Some([ty |-> ty, options |-> options, pc |-> 0])
    /\ fmt' = Json5Formatter_new(options)
    /\ UNCHANGED <<lvars, evars, bvars, tvars, fvars, dvars, pvars, fprev, fop,
                   mexpr, th, ffres>>

\* the walk makes its next call of the Formatter
TemplateCall ==
    /\ tcfg # None
    /\ tcfg[1].pc < Len(template(tcfg[1].ty, tcfg[1].options))
    /\ ~fmt.panicked
    /\ LET call == template(tcfg[1].ty, tcfg[1].options)[tcfg[1].pc + 1]
       IN  /\ fmt' = Apply(fmt, call)
           /\ fop' = Some(call)
    /\ fprev' = fmt
    /\ tcfg' = Some([tcfg[1] EXCEPT !.pc = @ + 1])
    /\ UNCHANGED <<lvars, evars, bvars, tvars, fvars, dvars, pvars, mexpr, th, ffres>>

\* a method of some Formatter is called on a buffer: self.buffer().push(c),
\* make_gap(size) or assert_single_trailing_newline()
FormatterCall(call) ==
    /\ tcfg = None
    /\ call.op = "push" => Len(fmt.buffer) < MaxBuffer
    /\ call.op = "assert_single_trailing_newline" => fop # None
    /\ fprev' = fmt
    /\ fop' = Some(call)
    /\ fmt' = Apply(fmt, call)
    /\ UNCHANGED <<lvars, evars, bvars, tvars, fvars, dvars, pvars, tcfg,
                   mexpr, th, ffres>>

NextTemplate ==
    \/ \E ty \in TemplateTypes, options \in FormatOptions : Template(ty, options)
    \/ TemplateCall
    \/ \E c \in {"x", "\n"} : FormatterCall(Call("push", c, None, 0, <<>>))
    \/ \E size \in 0..MaxGap : FormatterCall(Call("make_gap", "", None, size, <<>>))
    \/ FormatterCall(Call("assert_single_trailing_newline", "", None, 0, <<>>))

SpecTemplate == InitTemplate /\ [][NextTemplate]_vars

\* json5::template returned: every call was made
TemplateDone ==
    /\ tcfg # None
    /\ tcfg[1].pc = Len(template(tcfg[1].ty, tcfg[1].options))

-----------------------------------------------------------------------------
(* Leaves of a layer by path *)

RECURSIVE LeafPaths(_)
LeafPaths(ty) ==
    UNION {IF Field(ty, n).nested
           THEN {<<n>> \o p : p \in LeafPaths(Field(ty, n).ty)}
           ELSE {<<n>>} : n \in FieldNames(ty)}

RECURSIVE At(_, _)
At(l, p) == IF Len(p) = 1 THEN l[p[1]] ELSE At(l[p[1]], Tail(p))

\* the schema's field record of the leaf at path p
RECURSIVE LeafField(_, _)
LeafField(ty, p) ==
    IF Len(p) = 1 THEN Field(ty, p[1])
    ELSE LeafField(Field(ty, p[1]).ty, Tail(p))

\* the leaf paths in declaration order, depth first
RECURSIVE PathsFrom(_, _)
PathsFrom(ty, k) ==
    IF k > Len(Fields(ty)) THEN <<>>
    ELSE LET f == Fields(ty)[k]
             sub == PathsFrom(f.ty, 1)
         IN (IF f.nested THEN [i \in 1..Len(sub) |-> <<f.name>> \o sub[i]]
             ELSE << <<f.name>> >>) \o PathsFrom(ty, k + 1)

RECURSIVE Dotted(_)
Dotted(p) == IF Len(p) = 1 THEN p[1] ELSE p[1] \o "." \o Dotted(Tail(p))

\* the positions in PathsFrom(ty, 1) of the non-optional leaves that are None
MissingAt(ty, l) ==
    {i \in 1..Len(PathsFrom(ty, 1)) :
        /\ ~LeafField(ty, PathsFrom(ty, 1)[i]).optional
        /\ At(l, PathsFrom(ty, 1)[i]) = None}

FirstMissing(ty, l) ==
    PathsFrom(ty, 1)[CHOOSE i \in MissingAt(ty, l) : \A j \in MissingAt(ty, l) : i <= j]

\* the types whose from_layer runs a struct-level validator somewhere
RECURSIVE HasValidator(_)
HasValidator(ty) ==
    \/ StructValidator(ty) # None
    \/ \E n \in FieldNames(ty) : Field(ty, n).nested /\ HasValidator(Field(ty, n).ty)

-----------------------------------------------------------------------------
(* Properties of with_fallback *)

\* C2: la.with_fallback(lb).with_fallback(lc) holds, for each leaf at any
\* depth, the value of the first of la, lb, lc in which the leaf is Some,
\* and None when it is None in all three.
C2_FirstSome ==
    lpc = "abc" =>
        \A p \in LeafPaths(lty) :
            At(cur, p) = IF At(la, p) # None THEN At(la, p)
                         ELSE IF At(lb, p) # None THEN At(lb, p)
                         ELSE At(lc, p)

C2_Witness ==
    /\ lty = "Conf" /\ lpc = "abc"
    /\ la.http.tls.cert = None /\ lb.http.tls.cert = None
    /\ lc.http.tls.cert = Some(<<"a">>) /\ cur.http.tls.cert = Some(<<"a">>)
    /\ la.http.port = None /\ lb.http.port = Some(2) /\ lc.http.port = Some(1)
    /\ cur.http.port = Some(2)
    /\ la.debug = None /\ lb.debug = None /\ lc.debug = None
    /\ cur.debug = None

\* C3: Layer::empty() is a two-sided identity of with_fallback, nested
\* children included.
C3_EmptyIdentity ==
    /\ (lpc = "ab" /\ lb = empty(lty)) => cur = la
    /\ (lpc = "ab" /\ la = empty(lty)) => cur = lb
    /\ (lpc = "abc" /\ lc = empty(lty)) => cur = with_fallback(lty, la, lb)

C3_Witness ==
    /\ lty = "Conf" /\ lpc = "abc"
    /\ la = empty(lty) /\ lc = empty(lty)
    /\ lb.http.tls.cert # None /\ lb.http.port # None /\ lb.debug # None
    /\ cur = lb

\* C4: with_fallback is associative, and it is not commutative: some
\* layers A, B of each type have A.with_fallback(B) # B.with_fallback(A).
C4_AssocNotComm ==
    /\ lpc = "abc" => cur = with_fallback(lty, la, with_fallback(lty, lb, lc))
    /\ (lpc = "a" /\ la = empty(lty) /\ lb = la /\ lc = la) =>
            \E A, B \in Layers(lty) :
                with_fallback(lty, A, B) # with_fallback(lty, B, A)

C4_Witness ==
    /\ lty = "Conf" /\ lpc = "abc"
    /\ la.http.port = Some(1) /\ lb.http.port = Some(2)
    /\ la.http.tls.cert = None /\ lb.http.tls.cert = None
    /\ lc.http.tls.cert # None
    /\ cur = with_fallback(lty, la, with_fallback(lty, lb, lc))
    /\ with_fallback(lty, la, lb) # with_fallback(lty, lb, la)

-----------------------------------------------------------------------------
(* Properties of is_complete and from_layer *)

IsMissingValue(r) == ~r.ok /\ r.err.kind = "MissingValue"

\* the struct types nested (at any depth) in ty that declare a struct-level
\* validator
RECURSIVE NestedValidated(_)
NestedValidated(ty) ==
    UNION {IF Field(ty, n).nested
           THEN (IF StructValidator(Field(ty, n).ty) # None
                 THEN {Field(ty, n).ty} ELSE {})
                \cup NestedValidated(Field(ty, n).ty)
           ELSE {} : n \in FieldNames(ty)}

\* the failure is the rejection by the validator of a struct nested in ty
NestedRejected(ty, r) ==
    /\ ~r.ok /\ r.err.kind = "Validation"
    /\ r.err.field \in NestedValidated(ty)

\* C5 (as stated): is_complete() is true iff from_layer does not fail with
\* MissingValue.
C5_CompleteIffNoMissing ==
    res # NoRes => (is_complete(lty, cur) <=> ~IsMissingValue(res))

\* C5: a complete layer never fails with MissingValue; a layer that is not
\* complete always fails, with MissingValue unless the validator of a nested
\* struct rejects before the absent leaf is reached; where no nested struct
\* declares a validator, is_complete() is true iff from_layer does not fail
\* with MissingValue.
C5_CompleteNoMissing ==
    res # NoRes =>
        /\ is_complete(lty, cur) => ~IsMissingValue(res)
        /\ ~is_complete(lty, cur) =>
              IsMissingValue(res) \/ NestedRejected(lty, res)
        /\ NestedValidated(lty) = {} =>
              (is_complete(lty, cur) <=> ~IsMissingValue(res))

C5_Witness ==
    /\ lty = "Outer" /\ lpc = "ab" /\ res # NoRes
    /\ la.inner.a = None /\ cur.first = Some(1) /\ cur.inner.a = Some(2)
    /\ cur.last = None
    /\ ~is_complete(lty, cur) /\ ~IsMissingValue(res)
    /\ res.err = Validation("Inner")

\* C6 as claimed: a layer is complete as soon as every required leaf
\* without a declared default is Some; an optional leaf or a leaf with a
\* declared default that is None does not make it incomplete.
C6_OnlyNoDefaultGates ==
    is_complete(lty, cur) <=>
        \A p \in LeafPaths(lty) :
            (~LeafField(lty, p).optional /\ LeafField(lty, p).default = None)
                => At(cur, p) # None

\* C6 amended: is_complete() is gated by every non-optional leaf, with or
\* without a declared default; only an optional leaf may be None in a
\* complete layer.
C6_NonOptionalGates ==
    is_complete(lty, cur) <=>
        \A p \in LeafPaths(lty) :
            ~LeafField(lty, p).optional => At(cur, p) # None

\* after a merge, every leaf without default is Some and the leaf with a
\* default is None: the layer is not complete
C6_Witness ==
    /\ lty = "Conf" /\ lpc = "ab"
    /\ cur.debug # None /\ cur.http.tls.cert # None
    /\ LeafField("Conf", <<"http", "port">>).default # None
    /\ cur.http.port = None
    /\ ~is_complete(lty, cur)

C8_DottedPathOfFirstMissing ==
    res # NoRes =>
        /\ MissingAt(lty, cur) # {} =>
              IsMissingValue(res) \/ NestedRejected(lty, res)
        /\ (MissingAt(lty, cur) # {} /\ NestedValidated(lty) = {}) =>
              IsMissingValue(res)
        /\ IsMissingValue(res) =>
              /\ MissingAt(lty, cur) # {}
              /\ res.err.path = Dotted(FirstMissing(lty, cur))

\* C8 (as stated): when a required leaf is absent, from_layer fails with
\* MissingValue whose path is the field names from the root down to the
\* (first) absent leaf joined by dots, each struct's field name once.
C8_DottedPath ==
    res # NoRes =>
        /\ MissingAt(lty, cur) # {} =>
              /\ IsMissingValue(res)
              /\ res.err.path = Dotted(FirstMissing(lty, cur))
        /\ IsMissingValue(res) => MissingAt(lty, cur) # {}

C8_Witness ==
    /\ lty = "Conf" /\ res # NoRes
    /\ cur.http.port # None /\ cur.http.tls.cert = None
    /\ IsMissingValue(res) /\ res.err.path = "http.tls.cert"

-----------------------------------------------------------------------------
(* Properties of from_env *)

\* the leaves of ty, at any depth, that are bound to an env variable
EnvLeafPaths(ty) == {p \in LeafPaths(ty) : LeafField(ty, p).env # None}

KeyOf(ty, p) == LeafField(ty, p).env[1]

\* the raw value s cannot be parsed into the leaf's type
Unparsable(f, s) ==
    IF f.parse_env = None THEN ~deserialize(f.ty, s).ok
    ELSE ~RunParseEnv(f.parse_env[1], s).ok

\* the raw value s parses, and the leaf's validator rejects what it parsed to
Rejected(f, s) ==
    /\ ~Unparsable(f, s)
    /\ ~validate_fn(f, IF f.parse_env = None THEN deserialize(f.ty, s).val[1]
                       ELSE RunParseEnv(f.parse_env[1], s).val[1]).ok

ParseErrorKind(f) ==
    IF f.parse_env = None THEN "EnvDeserialization" ELSE "EnvParseError"

\* the struct that declares the leaf at path p
RECURSIVE OwnerOf(_, _)
OwnerOf(ty, p) ==
    IF Len(p) = 1 THEN ty ELSE OwnerOf(Field(ty, p[1]).ty, Tail(p))

\* the leaf at p is bound to a variable set to a non-empty value that cannot
\* be parsed
SetUnparsable(ty, e, p) ==
    /\ e[KeyOf(ty, p)].kind = "Ok"
    /\ e[KeyOf(ty, p)].s # <<>>
    /\ Unparsable(LeafField(ty, p), e[KeyOf(ty, p)].s)

\* C9: from_env, for a leaf with an env key: a variable that is not set
\* leaves the leaf None and raises no error; a variable set to a non-empty
\* value that cannot be parsed makes from_env return an error and no layer,
\* EnvDeserialization from the generic deserializer and EnvParseError from
\* a parse_env function; the error of a nested field reaches the caller
\* unchanged.
C9_EnvErrors ==
    eres # NoRes =>
        /\ \A p \in EnvLeafPaths(ety) :
              /\ env[KeyOf(ety, p)] = NotPresent =>
                    /\ eres.ok => At(eres.val[1], p) = None
                    /\ ~eres.ok => eres.err.key # KeyOf(ety, p)
              /\ SetUnparsable(ety, env, p) =>
                    /\ ~eres.ok /\ eres.val = <<>>
                    /\ eres.err.key = KeyOf(ety, p) =>
                          /\ eres.err.kind = ParseErrorKind(LeafField(ety, p))
                          /\ eres.err.field = OwnerOf(ety, p) \o "::" \o p[Len(p)]
                    /\ (\A q \in EnvLeafPaths(ety) \ {p} :
                            env[KeyOf(ety, q)] = NotPresent)
                          => eres.err.key = KeyOf(ety, p)
        /\ (\A p \in EnvLeafPaths(ety) : env[KeyOf(ety, p)] = NotPresent)
              => eres.ok
        /\ (ety = "Conf" /\ ~from_env("Http", env).ok) =>
              /\ ~eres.ok
              /\ eres.err = from_env("Http", env).err

C9_Witness ==
    /\ ety = "EnvConf"
    /\ env["FOO"] = NotPresent
    /\ env["BAR"] = Present(<<"1", "x">>)
    /\ env["BAZ"] = Present(<<"x">>)
    /\ ~eres.ok /\ eres.val = <<>>
    /\ eres.err = EnvParseError("EnvConf::bar", "BAR")

-----------------------------------------------------------------------------
(* Properties of Builder::load *)

\* the layer that the i-th source of the builder yields
LayerOf(i) == source_layer("Conf", sources[i], env, files)

\* the value that the default literal of a leaf stands for, if it declares one
DeclaredDefault(f) ==
    IF f.default = None THEN None
    ELSE CASE f.default[1].lit = "Int" -> Some(f.default[1].int)
           [] f.default[1].lit = "Str" -> Some(f.default[1].str)
           [] f.default[1].lit = "Bool" -> Some(f.default[1].bool)

\* the sources, in the order added, whose layer sets the leaf at path p
SettersOf(p) == {i \in 1..Len(sources) : At(LayerOf(i).val[1], p) # None}

\* the value of the earliest-added source that sets the leaf at p, else the
\* leaf's declared default, else None
Resolved(p) ==
    IF SettersOf(p) # {}
    THEN At(LayerOf(CHOOSE i \in SettersOf(p) : \A j \in SettersOf(p) : i <= j).val[1], p)
    ELSE DeclaredDefault(LeafField("Conf", p))

\* C1: Builder::load resolves every leaf to the value of the earliest-added
\* source (file, env or preloaded layer) that sets it; only when no source
\* sets it is the declared default used, and only when there is no default
\* either is the leaf None (optional leaf) or does load fail with
\* MissingValue (required leaf). A file added before env() that sets a leaf
\* overrides the env value of that leaf.
C1_EarliestSourceWins ==
    (bres # NoRes /\ \A i \in 1..Len(sources) : LayerOf(i).ok) =>
        /\ IsMissingValue(bres) <=>
              \E p \in LeafPaths("Conf") :
                  ~LeafField("Conf", p).optional /\ Resolved(p) = None
        /\ bres.ok =>
              \A p \in LeafPaths("Conf") :
                  At(bres.val[1], p) = IF LeafField("Conf", p).optional
                                       THEN Resolved(p) ELSE Resolved(p)[1]
        /\ (~bres.ok /\ ~IsMissingValue(bres)) => bres.err.kind = "Validation"

C1_Witness ==
    /\ sources = <<SourceFile("Conf", "app.toml"), SourceEnv("Conf")>>
    /\ files["app.toml"].kind = "Document"
    /\ files["app.toml"].doc.http.port = Some(2)
    /\ files["app.toml"].doc.http.tls.cert = Some(<<"a">>)
    /\ files["app.toml"].doc.debug = None
    /\ env["PORT"] = Present(<<"1">>)
    /\ bres.ok
    /\ bres.val[1].http.port = 2
    /\ bres.val[1].debug = None

-----------------------------------------------------------------------------
(* Properties of validation *)

\* the leaves of ty that have both a parse_env function and a validator
ParsedValidatedPaths(ty) ==
    {p \in EnvLeafPaths(ty) :
        LeafField(ty, p).parse_env # None /\ LeafField(ty, p).validate # None}

OutOpt(ty, out, p) ==
    IF LeafField(ty, p).optional THEN At(out, p) ELSE Some(At(out, p))

\* the field validator of the leaf at p, if any, accepts v
Accepts(ty, p, v) == validate_fn(LeafField(ty, p), v).ok

\* no leaf of the layer l holds a value that its field validator rejects
LayerAccepted(ty, l) ==
    \A p \in LeafPaths(ty) : At(l, p) # None => Accepts(ty, p, At(l, p)[1])

Merged == load_sources("Conf", sources, 1, empty("Conf"), env, files)
Full == with_fallback("Conf", Merged.val[1], default_values("Conf"))

\* C13: during one Builder::load the struct-level validator of the type is
\* invoked exactly once, on the concrete value built from the fully merged
\* layer after the defaults were merged and the required leaves resolved;
\* it is not invoked on a source layer or while layers are merged, and when
\* it rejects the value load returns a Validation error.
C13_StructValidatorOnce ==
    /\ bres = NoRes => vlog = <<>>
    /\ bres # NoRes =>
          /\ Len(vlog) <= 1
          /\ Len(vlog) = 1 <=> (Merged.ok /\ is_complete("Conf", Full))
          /\ Len(vlog) = 1 =>
                /\ vlog[1].ty = "Conf"
                /\ vlog[1].validator = StructValidator("Conf")[1]
                /\ \A p \in LeafPaths("Conf") :
                      OutOpt("Conf", vlog[1].value, p) = At(Full, p)
                /\ bres.ok <=> ConfValidate(vlog[1].value)
                /\ bres.ok => bres.val[1] = vlog[1].value
                /\ ~bres.ok => bres.err = Validation("Conf")

C13_Witness ==
    /\ Len(sources) = 2
    /\ sources[1].kind = "Preloaded" /\ sources[1].layer.debug = Some(TRUE)
    /\ sources[2].kind = "File" /\ LayerOf(2).ok
    /\ LayerOf(2).val[1].http.port = None
    /\ LayerOf(2).val[1].http.tls.cert = Some(<<"a">>)
    /\ Len(vlog) = 1
    /\ vlog[1].value.debug = Some(TRUE) /\ vlog[1].value.http.port = 1
    /\ bres = Err(Validation("Conf"))

-----------------------------------------------------------------------------
(* Properties of File *)

\* File::load has run on the File held
Loaded == file # None /\ fres # NoRes

\* C14: File::load on a path that does not exist returns Layer::empty()
\* when the file is not marked required and a MissingRequiredFile error
\* when it is; a read that fails for another reason returns an Io error,
\* required or not.
C14_MissingFile ==
    Loaded =>
        /\ (files[file[1].path].kind = "NotFound" /\ ~file[1].required)
              => fres = Ok(empty("Tls"))
        /\ (files[file[1].path].kind = "NotFound" /\ file[1].required)
              => fres = Err(MissingRequiredFile(file[1].path))
        /\ files[file[1].path].kind = "PermissionDenied"
              => fres = Err(Io(file[1].path))

C14_Witness ==
    /\ Loaded
    /\ file[1].path = "app.toml" /\ file[1].required
    /\ files["app.toml"].kind = "NotFound"
    /\ files["app.txt"].kind = "PermissionDenied"
    /\ fres = Err(MissingRequiredFile("app.toml"))

-----------------------------------------------------------------------------
(* Properties of the order of Builder::load *)

IsIO(ev) == ev.op \in {"fs::read", "env::var"}

\* Builder::load failed on the extension of a file source
ExtensionError ==
    ~bres.ok /\ bres.err.kind \in {"MissingFileExtension", "UnsupportedFileFormat"}

\* the first source, in the order added, whose loading fails
FirstFailing ==
    CHOOSE i \in 1..Len(sources) :
        ~LayerOf(i).ok /\ \A j \in 1..(i - 1) : LayerOf(j).ok

FormatOf(ext) ==
    CASE ext = "toml" -> Some("Toml")
      [] ext = "yaml" -> Some("Yaml")
      [] ext = "yml" -> Some("Yaml")
      [] ext = "json5" -> Some("Json5")
      [] ext = "json" -> Some("Json5")
      [] OTHER -> None

\* C16: the format is chosen from the path's extension alone: toml gives
\* TOML, yaml and yml give YAML, json5 and json give JSON5; File::new on a
\* path without extension fails with MissingFileExtension and on any other
\* extension with UnsupportedFileFormat; File::with_format checks no
\* extension and never fails.
C16_FormatFromExtension ==
    /\ (fpc = "new" /\ file # None) =>
          /\ extension(file[1].path) # None
          /\ Some(file[1].format) = FormatOf(extension(file[1].path)[1])
    /\ (fpc = "new" /\ file = None) =>
          /\ ~fres.ok
          /\ fres.err.path \in FilePaths
          /\ IF extension(fres.err.path) = None
             THEN fres.err = MissingFileExtension(fres.err.path)
             ELSE /\ fres.err = UnsupportedFileFormat(fres.err.path)
                  /\ FormatOf(extension(fres.err.path)[1]) = None
    /\ fpc = "with_format" =>
          /\ file # None
          /\ file[1].format \in Formats
          /\ fres # NoRes =>
                fres.err.kind \notin {"MissingFileExtension", "UnsupportedFileFormat"}

C16_Witness ==
    /\ fpc = "new" /\ file # None
    /\ file[1].path = "app.yml" /\ file[1].format = "Yaml"
    /\ ~file[1].required
    /\ fres = NoRes

\* some source of the builder fails to load
SomeSourceFails == \E i \in 1..Len(sources) : ~LayerOf(i).ok

\* how many steps of the trace are of the given operation
CountOp(op) == Cardinality({k \in 1..Len(trace) : trace[k].op = op})

\* how many of the first n sources are of the given kind
CountKind(kind, n) == Cardinality({j \in 1..n : sources[j].kind = kind})

\* C17: Builder::load stops at the first source, in the order added, whose
\* loading fails: it returns that source's error, no later source is
\* loaded, and neither the merge with default_values(), nor from_layer, nor
\* any struct-level validator runs afterwards.
C17_StopsAtFirstFailure ==
    (bres # NoRes /\ SomeSourceFails) =>
        /\ bres = Err(LayerOf(FirstFailing).err)
        /\ CountOp("File::new") = CountKind("File", FirstFailing)
        /\ CountOp("env::var") = CountKind("Env", FirstFailing)
        /\ CountOp("fs::read") <= CountKind("File", FirstFailing)
        /\ trace # <<>>
        /\ IF sources[FirstFailing].kind = "File"
           THEN /\ trace[Len(trace)].op \in {"File::new", "fs::read"}
                /\ trace[Len(trace)].what = sources[FirstFailing].path
           ELSE trace[Len(trace)].op = "env::var"
        /\ CountOp("default_values") = 0
        /\ CountOp("from_layer") = 0
        /\ vlog = <<>>

C17_Witness ==
    /\ sources = <<SourceEnv("Conf"), SourceFile("Conf", "app.toml")>>
    /\ env["PORT"] = Present(<<"x">>)
    /\ files["app.toml"].kind = "Document"
    /\ ~bres.ok /\ bres.err.kind = "EnvDeserialization"
    /\ trace = <<Event("env::var", "PORT")>>
    /\ vlog = <<>>

\* the leaves of a struct, nested ones included, whose declared default is a
\* literal of another kind than the field's type, or a value that the
\* field's validator rejects
BadDefaults(ty) ==
    {p \in LeafPaths(ty) :
        LET f == LeafField(ty, p)
        IN  /\ ~f.optional /\ f.default # None
            /\ \/ f.default[1].lit # (CASE f.ty = "u32" -> "Int"
                                        [] f.ty = "String" -> "Str"
                                        [] f.ty = "bool" -> "Bool")
               \/ f.default[1].lit = "Int" /\ f.default[1].int < 0
               \/ /\ f.validate # None
                  /\ ~RunFieldValidator(f.validate[1], DeclaredDefault(f)[1])}

\* C18: default_values() sets exactly the leaves with a declared default to
\* Some(the deserialized default) and every other leaf to None, nested
\* structs included; it returns no error; it panics exactly when the schema
\* declares a default that cannot be deserialized, one that the field's
\* validator rejects included, whatever the environment and the files hold.
C18_DefaultValues ==
    dty # "none" =>
        /\ dres.panic <=> BadDefaults(dty) # {}
        /\ ~dres.panic =>
              /\ dres.val # <<>>
              /\ \A p \in LeafPaths(dty) :
                    At(dres.val[1], p) =
                        IF LeafField(dty, p).optional THEN None
                        ELSE DeclaredDefault(LeafField(dty, p))

\* default_values() of Defaults returned, with PORT set to a value the
\* binder refuses
C18_Witness ==
    /\ dty = "Defaults"
    /\ env["PORT"] = Present(<<"x">>)
    /\ ~dres.panic
    /\ dres.val[1].with_default = Some(2)
    /\ dres.val[1].name = Some(<<"a">>)
    /\ dres.val[1].flag = Some(TRUE)
    /\ dres.val[1].required = None
    /\ dres.val[1].optional = None
    /\ dres.val[1].http.port = Some(1)
    /\ dres.val[1].http.tls.cert = None

\* the value without the whitespace in front of its first and after its
\* last character that is not whitespace
Stripped(s) ==
    LET solid == {i \in 1..Len(s) : s[i] \notin Whitespace}
    IN  IF solid = {} THEN <<>>
        ELSE SubSeq(s, CHOOSE i \in solid : \A j \in solid : i <= j,
                       CHOOSE i \in solid : \A j \in solid : i >= j)

\* the value with its upper-case letters turned into lower-case ones
Lower(s) == [i \in 1..Len(s) |-> to_ascii_lowercase(s[i])]

\* C19: the env Deserializer turns a value into a bool like this: after
\* trimming the whitespace around it, the value is true iff it is 1, true
\* or yes and false iff it is 0, false or no, letters compared without
\* regard to case; every other value, the empty string included, is an
\* error.
C19_BoolCoercion ==
    pty = "bool" =>
        LET s == Lower(Stripped(pin))
        IN  /\ (pout.ok /\ pout.val[1]) <=> s \in {<<"1">>, true, yes}
            /\ (pout.ok /\ ~pout.val[1]) <=> s \in {<<"0">>, false, no}
            /\ ~pout.ok <=> s \notin {<<"1">>, true, yes, <<"0">>, false, no}
            /\ pin = <<>> => ~pout.ok

C19_Witness ==
    /\ pty = "bool"
    /\ pin = <<" ", "\t", "Y", "e", "s", " ">>
    /\ pout.ok /\ pout.val[1] = TRUE

\* what the raw value s parses to, for a leaf that can parse it
ParsedValue(f, s) ==
    IF f.parse_env = None THEN deserialize(f.ty, s).val[1]
    ELSE RunParseEnv(f.parse_env[1], s).val[1]

\* C20: the tolerance for the empty string applies on failure only: a
\* variable set to the empty string whose parsing and validation succeed is
\* bound as a value, not treated as unset. A String leaf without validator
\* becomes Some(""), and in general Some of the raw value, untrimmed.
C20_EmptyBoundWhenValid ==
    (eres # NoRes /\ eres.ok) =>
        \A p \in EnvLeafPaths(ety) :
            LET f == LeafField(ety, p)
                var == env[KeyOf(ety, p)]
            IN  /\ ( /\ var = Present(<<>>)
                     /\ ~Unparsable(f, <<>>)
                     /\ ~Rejected(f, <<>>) )
                   => At(eres.val[1], p) = Some(ParsedValue(f, <<>>))
                /\ ( /\ var.kind = "Ok"
                     /\ f.ty = "String" /\ f.parse_env = None /\ f.validate = None )
                   => At(eres.val[1], p) = Some(var.s)

C20_Witness ==
    /\ ety = "EnvConf"
    /\ env["BAZ"] = Present(<<>>)
    /\ env["VALIDATE"] = Present(<<>>)
    /\ eres.ok
    /\ eres.val[1].baz = Some(<<>>)
    /\ eres.val[1].validate = None

\* C30: with_fallback loses nothing: every leaf that is Some in A or in B
\* is Some in A.with_fallback(B); so the merge is empty iff both are empty,
\* and it is complete whenever A or B is complete.
C30_NothingLost ==
    lpc = "ab" =>
        /\ \A p \in LeafPaths(lty) :
              (At(la, p) # None \/ At(lb, p) # None) => At(cur, p) # None
        /\ is_empty(lty, cur) <=> (is_empty(lty, la) /\ is_empty(lty, lb))
        /\ (is_complete(lty, la) \/ is_complete(lty, lb)) => is_complete(lty, cur)

\* neither layer is complete or empty, each sets a leaf the other lacks, and
\* the merge is complete
C30_Witness ==
    /\ lty = "Conf" /\ lpc = "ab"
    /\ la.http.port # None /\ lb.http.port = None
    /\ la.http.tls.cert = None /\ lb.http.tls.cert # None
    /\ cur.http.port = la.http.port /\ cur.http.tls.cert = lb.http.tls.cert
    /\ ~is_complete(lty, la) /\ ~is_complete(lty, lb) /\ is_complete(lty, cur)
    /\ ~is_empty(lty, cur)

-----------------------------------------------------------------------------
(* The order in which from_layer resolves and validates *)

\* the paths from ty down to its nested structs, ty itself (<<>>) included
RECURSIVE StructPaths(_)
StructPaths(ty) ==
    {<<>>} \cup UNION {IF Field(ty, n).nested
                       THEN {<<n>> \o q : q \in StructPaths(Field(ty, n).ty)}
                       ELSE {} : n \in FieldNames(ty)}

RECURSIVE TypeAt(_, _)
TypeAt(ty, q) == IF q = <<>> THEN ty ELSE TypeAt(Field(ty, q[1]).ty, Tail(q))

SubLayer(l, q) == IF q = <<>> THEN l ELSE At(l, q)

\* every leaf of the struct of type ty at q is resolved: out holds the
\* layer's value of each leaf, and every leaf of the struct comes before the
\* first absent required leaf in declaration order
ResolvedAt(ty, l, q, out) ==
    /\ \A p \in LeafPaths(TypeAt(ty, q)) :
            OutOpt(TypeAt(ty, q), out, p) = At(SubLayer(l, q), p)
    /\ \A i \in 1..Len(PathsFrom(ty, 1)) :
            (\E p \in LeafPaths(TypeAt(ty, q)) : PathsFrom(ty, 1)[i] = q \o p)
                => \A m \in MissingAt(ty, l) : i < m

CallAccepted(c) == RunStructValidator(c.validator, c.value)

\* C28: from_layer resolves fields in declaration order, depth first, and
\* stops at the first failure: with several required leaves absent the
\* MissingValue names the first; a struct's validator is called only after
\* every leaf of the struct is resolved and the validators of the structs
\* nested in it accepted; no validator is called after a failure, and the
\* failure returned is the first one.
C28_StopsAtFirstFailure ==
    res # NoRes =>
        /\ IsMissingValue(res) =>
              /\ res.err.path = Dotted(FirstMissing(lty, cur))
              /\ \A k \in 1..Len(vlog) : CallAccepted(vlog[k]) /\ vlog[k].ty # lty
        /\ \A k \in 1..Len(vlog) :
              /\ \A j \in 1..(k - 1) : CallAccepted(vlog[j])
              /\ \E q \in StructPaths(lty) :
                    /\ TypeAt(lty, q) = vlog[k].ty
                    /\ ResolvedAt(lty, cur, q, vlog[k].value)
              /\ \A t \in NestedValidated(vlog[k].ty) :
                    \E j \in 1..(k - 1) : vlog[j].ty = t
        /\ (~res.ok /\ ~IsMissingValue(res)) =>
              /\ vlog # <<>>
              /\ ~CallAccepted(vlog[Len(vlog)])
              /\ res.err = Validation(vlog[Len(vlog)].ty)
        /\ res.ok =>
              /\ \A k \in 1..Len(vlog) : CallAccepted(vlog[k])
              /\ {vlog[k].ty : k \in 1..Len(vlog)} =
                    NestedValidated(lty) \cup
                        (IF StructValidator(lty) # None THEN {lty} ELSE {})

C28_Witness ==
    /\ lty = "Outer" /\ res # NoRes
    /\ cur.first = Some(1) /\ cur.inner.a = Some(2) /\ cur.last = None
    /\ res.err = Validation("Inner")
    /\ Len(vlog) = 1 /\ vlog[1].ty = "Inner"

-----------------------------------------------------------------------------
(* Properties of templates *)

\* the chunks of the buffer
Chunks(buffer) == {buffer[i] : i \in 1..Len(buffer)}

\* the struct types of the tree of ty, ty included
TreeTypes(ty) == {TypeAt(ty, q) : q \in StructPaths(ty)}

\* the line of a leaf field: "//name: ," or "//name: value,"
FieldLine(f) ==
    IF f.optional \/ f.default = None THEN "//" \o f.name \o ": ,"
    ELSE "//" \o f.name \o ": " \o PrintExpr(f.default[1]) \o ","

\* the first line of the block of a nested field: its first doc line if
\* docs are written, else "name: {"
NestedStart(ty, f, options) ==
    IF options.comments /\ Doc(ty, f.name) # <<>> THEN "//" \o Doc(ty, f.name)[1]
    ELSE f.name \o ": {"

PosOf(buffer, chunk) == CHOOSE i \in 1..Len(buffer) : buffer[i] = chunk

\* the number of empty lines after the line whose text is at position i
EmptyLinesAfter(buffer, i) ==
    LET run == {n \in 0..(Len(buffer) - i) :
                    \A k \in 1..n : buffer[i + k] = "\n"}
    IN  (CHOOSE n \in run : \A m \in run : m <= n) - 1

\* the number of empty lines before the line whose text is at position i
EmptyLinesBefore(buffer, i) ==
    LET spaces == CHOOSE n \in 0..(i - 1) :
                    /\ \A k \in 1..n : buffer[i - k] = " "
                    /\ (n < i - 1 => buffer[i - n - 1] # " ")
    IN  num_trailing_newlines(SubSeq(buffer, 1, i - spaces - 1)) - 1

Bigger(a, b) == IF a > b THEN a ELSE b

\* C22 (as stated): the line 'Can also be specified via environment variable
\* KEY.' is in the template for a leaf with an env key iff both
\* options.comments and options.env_keys are true; with env_keys false the
\* template has no such line.
C22_EnvNoteIffBoth ==
    TemplateDone =>
        \A t \in TreeTypes(tcfg[1].ty) : \A n \in FieldNames(t) :
            (~Field(t, n).nested /\ Field(t, n).env # None) =>
                (("//" \o EnvNote(Field(t, n).env[1])) \in Chunks(fmt.buffer)
                    <=> (tcfg[1].options.general.comments
                         /\ tcfg[1].options.general.env_keys))

\* C23 (as stated): in the template, consecutive leaf fields are leaf_field_gap
\* empty lines apart (by default 1 with comments, 0 without), consecutive
\* nested fields nested_field_gap empty lines, and a leaf field and the
\* nested field after it the bigger of the two.
C23_Gaps ==
    TemplateDone =>
        LET options == tcfg[1].options.general
            leaf_gap == IF options.leaf_field_gap # None
                        THEN options.leaf_field_gap[1]
                        ELSE IF options.comments THEN 1 ELSE 0
        IN  \A t \in TreeTypes(tcfg[1].ty) :
              /\ \A i \in 1..(Len(leaf_fields(t)) - 1) :
                    EmptyLinesAfter(fmt.buffer,
                        PosOf(fmt.buffer, FieldLine(leaf_fields(t)[i]))) = leaf_gap
              /\ \A j \in 2..Len(nested_fields(t)) :
                    EmptyLinesBefore(fmt.buffer,
                        PosOf(fmt.buffer, NestedStart(t, nested_fields(t)[j], options)))
                      = options.nested_field_gap
              /\ (leaf_fields(t) # <<>> /\ nested_fields(t) # <<>>) =>
                    EmptyLinesBefore(fmt.buffer,
                        PosOf(fmt.buffer, NestedStart(t, nested_fields(t)[1], options)))
                      = Bigger(leaf_gap, options.nested_field_gap)

EndsWithOneNewline(buffer) ==
    /\ buffer # <<>>
    /\ buffer[Len(buffer)] = "\n"
    /\ Len(buffer) >= 2 => buffer[Len(buffer) - 1] # "\n"

\* C24: whatever the struct (one without fields included) and the options,
\* the template ends with exactly one newline; so does every buffer, empty or
\* not, after assert_single_trailing_newline.
C24_SingleTrailingNewline ==
    /\ TemplateDone => EndsWithOneNewline(fmt.buffer)
    /\ (fop # None /\ fop[1].op = "assert_single_trailing_newline") =>
            EndsWithOneNewline(fmt.buffer)

C24_Witness ==
    /\ TemplateDone /\ tcfg[1].ty = "Unit"
    /\ tcfg[1].options.general.nested_field_gap = MaxGap
    /\ tcfg[1].options.general.leaf_field_gap = Some(MaxGap)
    /\ ~tcfg[1].options.general.comments
    /\ fmt.buffer = <<"{", "\n", "}", "\n">>

\* C26: make_gap(size) leaves an empty buffer empty; to a buffer that is not
\* empty it only appends newlines, after which the buffer ends with at least
\* size + 1 newlines; a second make_gap(size) changes nothing.
C26_MakeGap ==
    (fop # None /\ fop[1].op = "make_gap") =>
        /\ fprev.buffer = <<>> => fmt = fprev
        /\ fprev.buffer # <<>> =>
              /\ Len(fmt.buffer) >= Len(fprev.buffer)
              /\ fmt.buffer = fprev.buffer
                                \o Newlines(Len(fmt.buffer) - Len(fprev.buffer))
              /\ num_trailing_newlines(fmt.buffer) >= fop[1].size + 1
        /\ [fmt EXCEPT !.buffer = fprev.buffer] = fprev
        /\ make_gap(fmt, fop[1].size) = fmt

C26_Witness ==
    /\ tcfg = None /\ fop # None /\ fop[1].op = "make_gap" /\ fop[1].size = 2
    /\ fprev.buffer = <<"x", "\n", "x", "\n">>
    /\ fmt.buffer = <<"x", "\n", "x", "\n", "\n", "\n">>

\* the number of calls of op among the first k noted calls
Noted(log, op, k) == Cardinality({i \in 1..k : log[i].op = op})

\* the nesting level the k-th noted call finds
Level(log, k) == Noted(log, "start_nested", k - 1) - Noted(log, "end_nested", k - 1)

\* C27: the walk calls start_main/end_main and start_nested/end_nested as
\* properly nested pairs: the depth never underflows, it is 1 plus the
\* nesting level when a field is written, and it is 0 when finish() asserts
\* it.
C27_DepthBalanced ==
    tcfg # None =>
        /\ ~fmt.panicked
        /\ \A k \in 1..Len(fmt.log) :
              /\ Level(fmt.log, k) >= 0
              /\ fmt.log[k].op = "start_main" <=> k = 1
              /\ fmt.log[k].op \in {"disabled_field", "start_nested"} =>
                    fmt.log[k].depth = 1 + Level(fmt.log, k)
              /\ fmt.log[k].op = "end_nested" =>
                    /\ Level(fmt.log, k) >= 1
                    /\ fmt.log[k].depth = 1 + Level(fmt.log, k)
              /\ fmt.log[k].op = "end_main" =>
                    Level(fmt.log, k) = 0 /\ fmt.log[k].depth = 1
              /\ fmt.log[k].op = "finish" =>
                    /\ fmt.log[k].depth = 0
                    /\ k = Len(fmt.log)
                    /\ fmt.log[k - 1].op = "end_main"
        /\ TemplateDone =>
              /\ fmt.log[Len(fmt.log)].op = "finish"
              /\ fmt.depth = 0

C27_Witness ==
    /\ tcfg # None /\ tcfg[1].ty = "Conf"
    /\ fop # None /\ fop[1].op = "disabled_field" /\ fop[1].text = "cert"
    /\ fmt.depth = 3
    /\ fmt.log[Len(fmt.log)] = [op |-> "disabled_field", depth |-> 3]
    /\ Level(fmt.log, Len(fmt.log)) = 2

-----------------------------------------------------------------------------
(* Properties of from_file *)

\* C29: from_file marks the file as required exactly when default_values()
\* is not complete: if nothing is at the path, it returns what from_layer
\* makes of the defaults alone when they are complete, and fails with
\* MissingRequiredFile, not MissingValue, when they are not; a file that is
\* there is merged over the defaults.
C29_RequiredUnlessDefaultsComplete ==
    ffres # None =>
        LET ty == ffres[1].ty
            path == ffres[1].path
            result == ffres[1].res
        IN  File_new(path).ok =>
              /\ (files[path].kind = "NotFound" /\ is_complete(ty, default_values(ty))) =>
                    /\ result = from_partial(ty, default_values(ty))
                    /\ ~IsMissingValue(result)
              /\ (files[path].kind = "NotFound" /\ ~is_complete(ty, default_values(ty))) =>
                    result = Err(MissingRequiredFile(path))
              /\ (files[path].kind = "Document"
                    /\ deserialize_layer(ty, files[path].doc).ok) =>
                    result = from_partial(ty,
                                with_fallback(ty, files[path].doc, default_values(ty)))

C29_Witness ==
    /\ ffres # None /\ ffres[1].ty = "Tls" /\ ffres[1].path = "app.yaml"
    /\ files["app.yaml"].kind = "NotFound"
    /\ ~is_complete("Tls", default_values("Tls"))
    /\ ffres[1].res.err.kind = "MissingRequiredFile"

-----------------------------------------------------------------------------
(* Properties of the default values of META *)

\* the width of a numeric literal by the rule: its suffix, else the type
\* declared or inferred for it if that is a numeric type of its kind, else
\* the fallback
Width(v, ty, int_fallback) ==
    LET names == IF v.lit = "Int" THEN IntTypes ELSE FloatTypes
    IN  IF v.suffix \in names THEN Variant(v.suffix)
        ELSE IF ty # None /\ ty[1].kind = "Path" /\ ty[1].segments = 1
                /\ ty[1].args = <<>> /\ ty[1].ident \in names
        THEN Variant(ty[1].ident)
        ELSE IF v.lit = "Int" THEN int_fallback ELSE "F64"

IsNumeric(v) == v.lit \in {"Int", "Float"}

\* the numeric literals of the default, one level deep, have the width of
\* the rule
WidthsBy(int_fallback) ==
    mexpr # None =>
        LET default == mexpr[1].default
            ty == mexpr[1].ty
            meta == mexpr[1].meta
            entry == get_map_entry_types(ty)
        IN  /\ IsNumeric(default) =>
                  meta.variant = Width(default, Some(ty), int_fallback)
            /\ default.lit = "Array" =>
                  \A i \in 1..Len(default.items) :
                      IsNumeric(default.items[i]) =>
                          meta.items[i].variant =
                              Width(default.items[i], get_array_item_type(ty), int_fallback)
            /\ default.lit = "Map" =>
                  \A i \in 1..Len(default.items) :
                      /\ IsNumeric(default.items[i].key) =>
                            meta.items[i].key.variant =
                                Width(default.items[i].key,
                                      IF entry # None THEN Some(entry[1][1]) ELSE None,
                                      int_fallback)
                      /\ IsNumeric(default.items[i].value) =>
                            meta.items[i].value.variant =
                                Width(default.items[i].value,
                                      IF entry # None THEN Some(entry[1][2]) ELSE None,
                                      int_fallback)

\* C21 (as stated): the width of a numeric default literal is that of its
\* suffix, else that of the field's declared type (or of the inferred array
\* item, map key or map value type), else the widest signed integer type
\* (i128) for integers and f64 for floats.
C21_WidthFallbackWidest == WidthsBy("I128")

\* C21: the width of a numeric default literal is that of its suffix, else
\* that of the field's declared type (or of the inferred array item, map key
\* or map value type), else i32 for integers and f64 for floats.
C21_WidthFallbackI32 == WidthsBy("I32")

C21_Witness ==
    /\ mexpr # None
    /\ mexpr[1].default = LitArray(<<LitInt("u16"), LitInt("")>>)
    /\ mexpr[1].ty = TyPath(3, "Duration", <<>>)
    /\ mexpr[1].meta.items[1].variant = "U16"
    /\ mexpr[1].meta.items[2].variant = "I32"

-----------------------------------------------------------------------------
(* Properties of concurrent loads *)

\* C25: with two load() calls running concurrently on unchanged sources,
\* under every interleaving of their steps each call returns the result it
\* returns when run alone, and the partial layer of a call is at every step
\* the merge of the layers of its own sources loaded so far: no call sees or
\* changes a layer of the other.
C25_LoadsIndependent ==
    \A t \in DOMAIN th :
        LET self == th[t]
        IN  /\ self.res # NoRes => self.res = load("Conf", self.srcs, env, files)
            /\ Ok(self.partial) =
                  load_sources("Conf", SubSeq(self.srcs, 1, self.i - 1), 1,
                               empty("Conf"), env, files)

\* the second call has returned a configuration while the first is in the
\* middle of its loop with another partial layer
C25_Witness ==
    /\ th # <<>>
    /\ th[1].res = NoRes /\ th[1].i = 2
    /\ th[2].res.ok
    /\ th[1].partial # th[2].partial
    /\ th[1].partial # empty("Conf")

====
